---- MODULE Spec2Model ----
(***************************************************************************)
(* A model of the emailback service (Zifeldev/emailback):                  *)
(*   - ParserController.BatchParseAndSave, the bounded worker pool of      *)
(*     service/internal/controllers/parserController.go;                   *)
(*   - CacheEmailRepo, the cache-aside decorator of                        *)
(*     service/internal/repository/cacheRepo.go;                           *)
(*   - CleanText, the text normalizer of package lang                      *)
(*     (unnamed/part_000).                                                 *)
(* Durations are in milliseconds.  Slice indices are 0-based as in Go;     *)
(* the request body is a sequence, so item i is inputs[i + 1].             *)
(***************************************************************************)
EXTENDS Integers, Sequences, FiniteSets, TLC

\* ------------------------------------------------------------------ bounds
\* Largest batch body drawn by Bind.
MaxItems == 2
\* A worker's stopwatch stops advancing here (it is past every item timeout).
MaxElapsedMs == 500
\* One step of a worker's stopwatch.
TickMs == 500
\* Email ids the callers of CacheEmailRepo use.
MaxIds == 1
\* Callers of CacheEmailRepo.
MaxCallers == 2
\* Versions of an entity saved through CacheEmailRepo.
MaxVer == 2
\* Requests to POST /parse the service receives.
MaxRequests == 2
\* Pieces joined into one input of CleanText.
MaxPieces == 3
\* Characters of a query parameter of a batch call.
MaxQueryLen == 3
\* Rows a statement run through TimeoutPool returns.
MaxRows == 2

\* ------------------------------------------------------- program constants
DefaultMaxWorkers == 5
MaxWorkersLimit == 100
DefaultItemTimeoutMs == 500
StatusOK == 200
StatusBadRequest == 400
StatusCreated == 201
StatusInternalServerError == 500
StatusGatewayTimeout == 504
DefaultRequestTimeoutMs == 500

\* ------------------------------------------------------------------ inputs
\* A raw message: "bad" is a malformed envelope (enmime.ReadEnvelope fails);
\* "m1" is a well-formed message carrying the Message-ID m1.
Raws == {"bad", "m1"}

\* Request bodies: one that does not bind to []BatchEmailInput (valid = FALSE)
\* and the arrays of up to MaxItems raw messages (the empty array included).
RECURSIVE SeqsUpTo(_, _)
SeqsUpTo(S, n) ==
  IF n = 0 THEN {<<>>}
  ELSE LET shorter == SeqsUpTo(S, n - 1)
       IN  shorter \cup {Append(s, x) : s \in {t \in shorter : Len(t) = n - 1}, x \in S}

Bodies ==
  {[valid |-> FALSE, items |-> <<>>]}
    \cup {[valid |-> TRUE, items |-> s] : s \in SeqsUpTo(Raws, MaxItems)}

\* Query values are texts, modelled as sequences of characters; <<>> is
\* an absent (or empty) parameter.
Digits == <<"0", "1", "2", "3", "4", "5", "6", "7", "8", "9">>
IsDigit(ch) == \E k \in 1..10 : Digits[k] = ch
DigitVal(ch) == (CHOOSE k \in 1..10 : Digits[k] = ch) - 1

MaxWorkersQueries ==
  { <<>>, <<"1">>, <<"2">>, <<"0">>, <<"1", "0", "1">>, <<"-", "1">>, <<"x">> }
ItemTimeoutQueries ==
  { <<>>, <<"2", "5", "0", "m", "s">>, <<"0", "s">>, <<"-", "1", "s">>, <<"5", "0", "0">> }

VARIABLES
  hpc,          \* the handler's position in BatchParseAndSave
  inputs,       \* the bound body, []BatchEmailInput
  maxWorkers,   \* effective max_workers
  itemTimeout,  \* effective item_timeout, ms
  enq,          \* the enqueue loop's counter: jobs sent so far
  jobs,         \* the jobs channel's buffer (item indices, FIFO)
  jobsClosed,   \* close(jobs) has run
  results,      \* the results channel's buffer
  resultsClosed,\* close(results) has run
  wg,           \* the WaitGroup counter
  wpc,          \* wpc[w]: worker w's position
  wjob,         \* wjob[w]: the index of the job worker w holds
  elapsed,      \* elapsed[w]: ms since worker w's current item started
  wres,         \* wres[w]: the BatchItemResult worker w is about to send
  out,          \* the handler's out slice
  okCnt,        \* the handler's ok counter
  failCnt,      \* the handler's fail counter
  resp,         \* the response written by the handler
  reqCancelled, \* the request context (parent of every item context) is done
  crashed,      \* an unrecovered panic in a worker goroutine ended the process
  store,        \* the emails table: a set of rows [id, mid]
  parsed,       \* history: parsed[i] = number of Parse calls for item i
  saved,        \* history: saved[i] = number of SaveEmail calls for item i
  emitted,      \* history: emitted[i] = results sent for item i
  order,        \* history: the slots of out in the order they were written
  outcome,      \* history: outcome[i] = what Parse/SaveEmail returned for item i
  \* CacheEmailRepo and its callers
  rdbNil,       \* the repo was built with a nil *redis.Client
  cache,        \* Redis: cache[id] = the value under cacheKeyByID(id), if any
  under,        \* the underlying repository: under[id] = the stored version, 0 if none
  nextVer,      \* the version the next saved entity carries
  cpc,          \* cpc[c]: caller c's position inside GetByID or SaveEmail
  carg,         \* carg[c]: the id (GetByID) or entity (SaveEmail) of c's call
  cseen,        \* history: what c's GetByID read from the cache
  casked,       \* history: c's GetByID called the underlying repository
  cret,         \* cret[c]: what c's last call returned
  cstored,      \* history: cstored[id], the versions written to the underlying store, in order
  csaved,       \* history: csaved[id], how many of them a SaveEmail that removed the key and returned had stored
  cfloor,       \* history: cfloor[c], csaved[id] when c's GetByID(id) started
  \* the service process and a request to POST /parse
  env,               \* HTTP_REQUEST_TIMEOUT in the environment
  boot,              \* "start", "loaded" (MustLoad returned), "serving"
  cfgRequestTimeout, \* cfg.HTTP.RequestTimeout, ms
  reqTimeout,        \* the duration given to TimeoutMiddleware, ms
  spc,               \* position of ParseAndSave
  sreq,              \* requests received so far
  sraw,              \* body of the request
  sent,              \* entity returned by Parse
  sclock,            \* ms since the request arrived
  sparse, ssave,     \* how Parse and SaveEmail returned: "none", "ok", "err"
  scode, sbody,      \* what ParseAndSave wrote with c.JSON
  sstore, sstore0,   \* rows of the repository, now and when the request arrived
  mwpc, mwcode,      \* TimeoutMiddleware: its position and what it wrote
  \* one text given to CleanText
  tin,               \* the argument s
  tpc,               \* "new", "cleaned", "recleaned" (the result cleaned again)
  thtml,             \* s after the conversion of HTML, line 22
  tsig,              \* s after the removal of reply headers, line 24
  tcue,              \* s after the truncation at the signature cue, line 28
  tcut,              \* s after the truncation at the delimiter, line 32
  tout,              \* the result
  tout2,             \* the result of CleanText on the result
  \* one envelope given to the entity building of EnmimeParser.Parse
  eText, eHTML,      \* env.Text and env.HTML
  epc,               \* "new", "built"
  eent,              \* the fields of the entity that come from the body
  \* one query parameter of a batch call
  qname,             \* "max_workers" or "item_timeout"
  qtext,             \* c.Query(qname)
  qpc,               \* "new", "read"
  qval,              \* the effective value: a count, or ms
  \* one call through TimeoutPool
  pkind,             \* "Exec", "Query", "QueryRow"
  pavail,            \* rows the statement matches
  pparent,           \* the caller's context is done already
  ppc,               \* "idle", "in_pool", "deferred", "returned", "done"
  pctx,              \* the context of the call: "none", "live", "expired", "cancelled"
  pleft,             \* rows not yet read from the result
  pgot,              \* rows the caller has scanned
  perr,              \* the error the call or the scan produced
  pscanctx           \* history: the state of the context at each scan

batchVars ==
  << hpc, inputs, maxWorkers, itemTimeout, enq, jobs, jobsClosed, results,
     resultsClosed, wg, wpc, wjob, elapsed, wres, out, okCnt, failCnt, resp,
     reqCancelled, crashed, store, parsed, saved, emitted, order, outcome >>

cacheVars ==
  << rdbNil, cache, under, nextVer, cpc, carg, cseen, casked, cret, cstored, csaved, cfloor >>

serveVars ==
  << env, boot, cfgRequestTimeout, reqTimeout, spc, sreq, sraw, sent, sclock,
     sparse, ssave, scode, sbody, sstore, sstore0, mwpc, mwcode >>

textVars == << tin, tpc, thtml, tsig, tcue, tcut, tout, tout2 >>

buildVars == << eText, eHTML, epc, eent >>

queryVars == << qname, qtext, qpc, qval >>

poolVars == << pkind, pavail, pparent, ppc, pctx, pleft, pgot, perr, pscanctx >>

vars == << batchVars, cacheVars, serveVars, textVars, buildVars, queryVars, poolVars >>

\* What the operations of one component leave alone.
offBatch == << cacheVars, serveVars, textVars, buildVars, queryVars, poolVars >>
offCache == << batchVars, serveVars, textVars, buildVars, queryVars, poolVars >>
offServe == << batchVars, cacheVars, textVars, buildVars, queryVars, poolVars >>
offText == << batchVars, cacheVars, serveVars, buildVars, queryVars, poolVars >>
offBuild == << batchVars, cacheVars, serveVars, textVars, queryVars, poolVars >>
offQuery == << batchVars, cacheVars, serveVars, textVars, buildVars, poolVars >>
offPool == << batchVars, cacheVars, serveVars, textVars, buildVars, queryVars >>

\* ------------------------------------------------- parameter parsing
RECURSIVE DigitsValue(_)
DigitsValue(s) ==
  IF s = <<>> THEN 0
  ELSE 10 * DigitsValue(SubSeq(s, 1, Len(s) - 1)) + DigitVal(s[Len(s)])

AllDigits(s) == Len(s) > 0 /\ \A k \in 1..Len(s) : IsDigit(s[k])

\* strconv.Atoi: an optional sign, then one or more decimal digits.
Atoi(s) ==
  LET signed == Len(s) > 0 /\ s[1] \in {"-", "+"}
      digits == IF signed THEN Tail(s) ELSE s
  IN  IF AllDigits(digits)
      THEN [ok |-> TRUE,
            v  |-> IF signed /\ s[1] = "-" THEN 0 - DigitsValue(digits)
                   ELSE DigitsValue(digits)]
      ELSE [ok |-> FALSE, v |-> 0]

RECURSIVE LeadingDigits(_)
LeadingDigits(s) ==
  IF s # <<>> /\ IsDigit(s[1]) THEN 1 + LeadingDigits(Tail(s)) ELSE 0

RECURSIVE LeadingNonDigits(_)
LeadingNonDigits(s) ==
  IF s # <<>> /\ ~IsDigit(s[1]) THEN 1 + LeadingNonDigits(Tail(s)) ELSE 0

\* The units of time.ParseDuration that are whole milliseconds.
UnitMs(unit) ==
  IF unit = <<"m", "s">> THEN 1
  ELSE IF unit = <<"s">> THEN 1000
  ELSE IF unit = <<"m">> THEN 60000
  ELSE IF unit = <<"h">> THEN 3600000
  ELSE 0

\* time.ParseDuration, the loop over the segments: each is decimal digits
\* followed by a unit, the unit being the characters up to the next digit.
RECURSIVE DurationSum(_)
DurationSum(rest) ==
  IF rest = <<>> THEN [ok |-> TRUE, ms |-> 0]
  ELSE LET k    == LeadingDigits(rest)
           u    == LeadingNonDigits(SubSeq(rest, k + 1, Len(rest)))
           unit == SubSeq(rest, k + 1, k + u)
           more == DurationSum(SubSeq(rest, k + u + 1, Len(rest)))
       IN  IF k = 0 \/ UnitMs(unit) = 0 \/ ~more.ok THEN [ok |-> FALSE, ms |-> 0]
           ELSE [ok |-> TRUE, ms |-> DigitsValue(SubSeq(rest, 1, k)) * UnitMs(unit) + more.ms]

\* time.ParseDuration on texts without a fraction and without a unit below
\* the millisecond: an optional sign, then "0", or one or more segments; a
\* number with no unit, an unknown unit or no digits is an error.  The value
\* is in milliseconds.
ParseDuration(s) ==
  LET signed == Len(s) > 0 /\ s[1] \in {"-", "+"}
      rest   == IF signed THEN Tail(s) ELSE s
      sign   == IF signed /\ s[1] = "-" THEN 0 - 1 ELSE 1
  IN  IF rest = <<"0">> THEN [ok |-> TRUE, ms |-> 0]
      ELSE IF rest = <<>> \/ ~DurationSum(rest).ok THEN [ok |-> FALSE, ms |-> 0]
      ELSE [ok |-> TRUE, ms |-> sign * DurationSum(rest).ms]

\* Fault: the upper limit of max_workers is not applied.
EffectiveMaxWorkersNoLimit(q) ==
  IF q # <<>> /\ Atoi(q).ok /\ Atoi(q).v >= 1 THEN Atoi(q).v ELSE DefaultMaxWorkers

\* parserController.go:104-109
EffectiveMaxWorkers(q) ==
  IF q # <<>> /\ Atoi(q).ok /\ Atoi(q).v >= 1 /\ Atoi(q).v <= MaxWorkersLimit
  THEN Atoi(q).v
  ELSE DefaultMaxWorkers

\* parserController.go:110-115
EffectiveItemTimeout(q) ==
  IF q # <<>> /\ ParseDuration(q).ok /\ ParseDuration(q).ms > 0
  THEN ParseDuration(q).ms
  ELSE DefaultItemTimeoutMs

\* Fault: the worker count is not capped by the number of inputs.
WorkerCountUncapped(mw, n) == mw

\* parserController.go:153-156
WorkerCount(mw, n) == IF mw > n THEN n ELSE mw

\* make(chan job, len(inputs)) and make(chan BatchItemResult, len(inputs))
JobsCap(n) == n
ResultsCap(n) == n

\* ------------------------------------------------- parser and repository
\* uuid.NewString() in Parse: a fresh identifier for each parsed item.
NewID(i) == i + 1

\* EnmimeParser.Parse: the context is ignored; a malformed envelope is an
\* error, otherwise the entity carries a fresh ID and the Message-ID header;
\* text stands for the fields derived from the body of item i.
Parse(raw, i) ==
  IF raw = "bad"
  THEN [err |-> "malformed envelope", ent |-> [id |-> 0, mid |-> "", text |-> 0]]
  ELSE [err |-> "", ent |-> [id |-> NewID(i), mid |-> raw, text |-> i]]

\* upsertEmail: INSERT ... ON CONFLICT (message_id) DO UPDATE SET every column
\* but id, message_id and created_at: on a conflict the row keeps its id.
Upsert(st, ent) ==
  IF \E r \in st : r.mid = ent.mid
  THEN {IF r.mid = ent.mid THEN [r EXCEPT !.text = ent.text] ELSE r : r \in st}
  ELSE st \cup {ent}

\* The error of a context that is done.
CtxErr(deadlinePassed) ==
  IF deadlinePassed THEN "context deadline exceeded" ELSE "context canceled"

\* PostgresEmailRepo.SaveEmail through TimeoutPool.Exec: with a context that is
\* done the call fails with the context's error and writes nothing; otherwise
\* the statement runs, or fails with a database error, or the context's
\* deadline passes while it is running.
SaveEmailOutcomes(ctxDone, deadlinePassed, ent, st) ==
  IF ctxDone
  THEN {[err |-> CtxErr(deadlinePassed), store |-> st]}
  ELSE {[err |-> "", store |-> Upsert(st, ent)],
        [err |-> "db error", store |-> st],
        [err |-> CtxErr(TRUE), store |-> st]}

\* ------------------------------------------------- batch handler state
ZeroResult == [index |-> 0, status |-> "", email_id |-> 0, error |-> ""]
NoResp ==
  [code |-> 0, error |-> "", processed |-> 0, succeeded |-> 0, failed |-> 0,
   results |-> <<>>]

Workers == DOMAIN wpc
Indices == 0..(Len(inputs) - 1)

\* Fault: one deadline shared by the pool, passed once any item's has.
DeadlineShared(w) == \E v \in DOMAIN wpc : elapsed[v] >= itemTimeout

\* ictx of worker w: context.WithTimeout(ctx, itemTimeout), ctx the request's.
DeadlinePassed(w) == elapsed[w] >= itemTimeout
IctxDone(w) == reqCancelled \/ DeadlinePassed(w)

InFlight == {w \in Workers : wpc[w] \in {"parse", "save"}}

\* ------------------------------------------------- CacheEmailRepo: data
Ids == 1..MaxIds
Callers == 1..MaxCallers

\* An EmailEntity as far as the cache is concerned: its ID and its content.
Entity(id, ver) == [id |-> id, ver |-> ver]
ZeroEntity == Entity(0, 0)

\* json.Marshal of an entity, and json.Unmarshal into an EmailEntity: the
\* object {id ver} in digits; "{}" decodes to the zero entity; anything else
\* is an error.
\* Fault: the two fields are written in the wrong order.
MarshalSwapped(e) == <<"{", Digits[e.ver + 1], Digits[e.id + 1], "}">>

Marshal(e) == <<"{", Digits[e.id + 1], Digits[e.ver + 1], "}">>
Unmarshal(bs) ==
  IF bs = <<"{", "}">> THEN [ok |-> TRUE, e |-> ZeroEntity]
  ELSE IF Len(bs) = 4 /\ bs[1] = "{" /\ bs[4] = "}" /\ IsDigit(bs[2]) /\ IsDigit(bs[3])
  THEN [ok |-> TRUE, e |-> Entity(DigitVal(bs[2]), DigitVal(bs[3]))]
  ELSE [ok |-> FALSE, e |-> ZeroEntity]

\* Values a writer other than CacheEmailRepo leaves under a key
\* (cacheRepo_test.go:90 writes "{not-json}"): invalid JSON, an empty value.
BadJSON == <<"{", "n", "o", "t", "}">>
ForeignValues == {BadJSON, <<>>}

NoEntry == [has |-> FALSE, bs |-> <<>>]
NoSeen == [err |-> "not read", bs |-> <<>>]
NoRet == [op |-> "none", err |-> "", ent |-> ZeroEntity]

CacheStart ==
  /\ cache = [id \in Ids |-> NoEntry]
  /\ under = [id \in Ids |-> 0]
  /\ nextVer = 1
  /\ cpc = [c \in Callers |-> "idle"]
  /\ carg = [c \in Callers |-> ZeroEntity]
  /\ cseen = [c \in Callers |-> NoSeen]
  /\ casked = [c \in Callers |-> FALSE]
  /\ cret = [c \in Callers |-> NoRet]
  /\ cstored = [id \in Ids |-> <<>>]
  /\ csaved = [id \in Ids |-> 0]
  /\ cfloor = [c \in Callers |-> 0]

BatchStart ==
  /\ hpc = "start"
  /\ inputs = <<>>
  /\ maxWorkers = 0
  /\ itemTimeout = 0
  /\ enq = 0
  /\ jobs = <<>>
  /\ jobsClosed = FALSE
  /\ results = <<>>
  /\ resultsClosed = FALSE
  /\ wg = 0
  /\ wpc = <<>>
  /\ wjob = <<>>
  /\ elapsed = <<>>
  /\ wres = <<>>
  /\ out = <<>>
  /\ okCnt = 0
  /\ failCnt = 0
  /\ resp = NoResp
  /\ reqCancelled = FALSE
  /\ crashed = FALSE
  /\ store = {}
  /\ parsed = <<>>
  /\ saved = <<>>
  /\ emitted = <<>>
  /\ order = <<>>
  /\ outcome = <<>>

\* main.go:63-81: the service wraps the repository in CacheEmailRepo with a
\* live client only.
\* ------------------------------------------------- service start-up: data
\* HTTP_REQUEST_TIMEOUT: unset, or set to a text.
UnsetEnv == [set |-> FALSE, val |-> <<>>]
EnvValues ==
  {UnsetEnv}
    \cup {[set |-> TRUE, val |-> v] :
            v \in {<<"2", "5", "0", "m", "s">>, <<"1", "s">>, <<"0", "s">>, <<"x">>}}

ZeroEnt == [id |-> 0, mid |-> "", text |-> 0]
NoBody == [error |-> "", ent |-> ZeroEnt]

ServeStart ==
  /\ boot = "start"
  /\ cfgRequestTimeout = 0
  /\ reqTimeout = 0
  /\ spc = "idle"
  /\ sreq = 0
  /\ sraw = ""
  /\ sent = ZeroEnt
  /\ sclock = 0
  /\ sparse = "none"
  /\ ssave = "none"
  /\ scode = 0
  /\ sbody = NoBody
  /\ sstore = {}
  /\ sstore0 = {}
  /\ mwpc = "idle"
  /\ mwcode = 0

TextStart ==
  /\ tpc = "new"
  /\ thtml = <<>>
  /\ tsig = <<>>
  /\ tcue = <<>>
  /\ tcut = <<>>
  /\ tout = <<>>
  /\ tout2 = <<>>

NoFields == [text |-> <<>>, char_count |-> 0, word_count |-> 0, line_count |-> 0]

QueryStart ==
  /\ qname = "max_workers"
  /\ qtext = <<>>
  /\ qpc = "new"
  /\ qval = 0

PoolStart ==
  /\ pkind = "Exec"
  /\ pavail = 0
  /\ pparent = FALSE
  /\ ppc = "idle"
  /\ pctx = "none"
  /\ pleft = 0
  /\ pgot = 0
  /\ perr = ""
  /\ pscanctx = <<>>

BuildStart ==
  /\ eText = <<>>
  /\ eHTML = <<>>
  /\ epc = "new"
  /\ eent = NoFields

Init ==
  /\ BatchStart /\ CacheStart /\ rdbNil = FALSE /\ ServeStart /\ env = UnsetEnv
  /\ TextStart /\ tin = <<>>
  /\ BuildStart
  /\ QueryStart
  /\ PoolStart

workerVars == << wpc, wjob, elapsed, wres >>
chanVars == << enq, jobs, jobsClosed, results, resultsClosed >>
collectVars == << out, okCnt, failCnt, order >>
paramVars == << inputs, maxWorkers, itemTimeout >>
histVars == << parsed, saved, emitted, outcome >>

\* Fault: the empty-input check is missing.
EmptyInputUnchecked(items) == FALSE

\* parserController.go:98: len(inputs) == 0
EmptyInput(items) == Len(items) = 0

\* parserController.go:92-115: bind the body, reject an unbindable or empty
\* one with 400, then read max_workers and item_timeout.
Bind ==
  /\ hpc = "start"
  /\ ~crashed
  /\ \E body \in Bodies, qw \in MaxWorkersQueries, qt \in ItemTimeoutQueries :
       IF ~body.valid
       THEN /\ resp' = [NoResp EXCEPT !.code = StatusBadRequest, !.error = "bind error"]
            /\ hpc' = "rejected"
            /\ UNCHANGED << paramVars, histVars >>
       ELSE IF EmptyInput(body.items)
       THEN /\ resp' = [NoResp EXCEPT !.code = StatusBadRequest, !.error = "empty input"]
            /\ hpc' = "rejected"
            /\ UNCHANGED << paramVars, histVars >>
       ELSE /\ inputs' = body.items
            /\ maxWorkers' = EffectiveMaxWorkers(qw)
            /\ itemTimeout' = EffectiveItemTimeout(qt)
            /\ hpc' = "spawn"
            /\ parsed' = [i \in 0..(Len(body.items) - 1) |-> 0]
            /\ saved' = [i \in 0..(Len(body.items) - 1) |-> 0]
            /\ emitted' = [i \in 0..(Len(body.items) - 1) |-> 0]
            /\ outcome' = [i \in 0..(Len(body.items) - 1) |-> "none"]
            /\ UNCHANGED resp
  /\ UNCHANGED << chanVars, wg, workerVars, collectVars, reqCancelled, crashed, store >>
  /\ UNCHANGED offBatch

\* parserController.go:128-164: make the channels, wg.Add(wc), start wc workers.
Spawn ==
  /\ hpc = "spawn"
  /\ ~crashed
  /\ LET wc == WorkerCount(maxWorkers, Len(inputs))
     IN  /\ wg' = wc
         /\ wpc' = [w \in 1..wc |-> "idle"]
         /\ wjob' = [w \in 1..wc |-> 0]
         /\ elapsed' = [w \in 1..wc |-> 0]
         /\ wres' = [w \in 1..wc |-> ZeroResult]
  /\ hpc' = "enqueue"
  /\ UNCHANGED << paramVars, chanVars, collectVars, resp, reqCancelled, crashed,
                  store, histVars >>
  /\ UNCHANGED offBatch

\* Fault: every job carries the index of the first item.
JobForFirst(k) == 0

\* parserController.go:166: the job sent in iteration k is job{i: k, raw: ...}.
JobFor(k) == k

\* parserController.go:165-167: jobs <- job{i, raw}, one item per step; the
\* send blocks while the buffer is full.
Enqueue ==
  /\ hpc = "enqueue"
  /\ ~crashed
  /\ enq < Len(inputs)
  /\ Len(jobs) < JobsCap(Len(inputs))
  /\ jobs' = Append(jobs, JobFor(enq))
  /\ enq' = enq + 1
  /\ UNCHANGED << hpc, paramVars, jobsClosed, results, resultsClosed, wg,
                  workerVars, collectVars, resp, reqCancelled, crashed, store,
                  histVars >>
  /\ UNCHANGED offBatch

\* Fault: close(jobs) is missing.
JobsNeverClosed == FALSE

\* parserController.go:168: close(jobs) once every job is sent.
JobsClosedAfterEnqueue == TRUE

\* parserController.go:168-176: close(jobs), start the goroutine that waits
\* for the workers and closes results, allocate out.
CloseJobs ==
  /\ hpc = "enqueue"
  /\ ~crashed
  /\ enq = Len(inputs)
  /\ jobsClosed' = JobsClosedAfterEnqueue
  /\ out' = [i \in Indices |-> ZeroResult]
  /\ order' = <<>>
  /\ okCnt' = 0
  /\ failCnt' = 0
  /\ hpc' = "collect"
  /\ UNCHANGED << paramVars, enq, jobs, results, resultsClosed, wg, workerVars,
                  resp, reqCancelled, crashed, store, histVars >>
  /\ UNCHANGED offBatch

\* parserController.go:170-173: wg.Wait() returns when every worker is done;
\* then close(results).
Closer ==
  /\ hpc \in {"collect", "done"}
  /\ ~crashed
  /\ ~resultsClosed
  /\ wg = 0
  /\ resultsClosed' = TRUE
  /\ UNCHANGED << hpc, paramVars, enq, jobs, jobsClosed, results, wg, workerVars,
                  collectVars, resp, reqCancelled, crashed, store, histVars >>
  /\ UNCHANGED offBatch

\* Fault: the result is stored at its arrival position, not at its index.
SlotByArrival(r, nth) == nth

\* The slot of out a received result is stored in: out[r.Index] = r.
Slot(r, nth) == r.index

\* parserController.go:177-184: one iteration of for r := range results.
Collect ==
  /\ hpc = "collect"
  /\ ~crashed
  /\ results # <<>>
  /\ LET r == Head(results)
         k == Slot(r, okCnt + failCnt)
     IN  /\ out' = [out EXCEPT ![k] = r]
         /\ order' = Append(order, k)
         /\ IF r.status = "ok"
            THEN okCnt' = okCnt + 1 /\ UNCHANGED failCnt
            ELSE failCnt' = failCnt + 1 /\ UNCHANGED okCnt
  /\ results' = Tail(results)
  /\ UNCHANGED << hpc, paramVars, enq, jobs, jobsClosed, resultsClosed, wg,
                  workerVars, resp, reqCancelled, crashed, store, histVars >>
  /\ UNCHANGED offBatch

\* Fault: the handler stops collecting as soon as the buffer is empty.
ResultsDrainedEarly == results = <<>>

\* parserController.go:177: for r := range results ends when the channel is
\* closed and its buffer is empty.
ResultsDrained == results = <<>> /\ resultsClosed

\* parserController.go:192-197: the range loop ends when results is closed and
\* drained; the handler answers 200 with the counts and out.
Respond ==
  /\ hpc = "collect"
  /\ ~crashed
  /\ ResultsDrained
  /\ resp' = [code |-> StatusOK, error |-> "", processed |-> Len(inputs),
              succeeded |-> okCnt, failed |-> failCnt, results |-> out]
  /\ hpc' = "done"
  /\ UNCHANGED << paramVars, chanVars, wg, workerVars, collectVars,
                  reqCancelled, crashed, store, histVars >>
  /\ UNCHANGED offBatch

\* timeoutMiddleware.go:18-24 and parserController.go:131: the request context
\* every item context is derived from is cancelled (the request timeout fires,
\* or the client goes away) while the handler runs.
RequestCancel ==
  /\ hpc \in {"start", "spawn", "enqueue", "collect"}
  /\ ~crashed
  /\ ~reqCancelled
  /\ reqCancelled' = TRUE
  /\ UNCHANGED << hpc, paramVars, chanVars, wg, workerVars, collectVars, resp,
                  crashed, store, histVars >>
  /\ UNCHANGED offBatch

\* parserController.go:134-136: for j := range jobs receives a job; the item's
\* stopwatch and its context start.
Take(w) ==
  /\ ~crashed
  /\ wpc[w] = "idle"
  /\ jobs # <<>>
  /\ wjob' = [wjob EXCEPT ![w] = Head(jobs)]
  /\ jobs' = Tail(jobs)
  /\ elapsed' = [elapsed EXCEPT ![w] = 0]
  /\ wpc' = [wpc EXCEPT ![w] = "parse"]
  /\ UNCHANGED << hpc, paramVars, enq, jobsClosed, results, resultsClosed, wg,
                  wres, collectVars, resp, reqCancelled, crashed, store,
                  histVars >>
  /\ UNCHANGED offBatch

\* parserController.go:134,161: the range loop ends when jobs is closed and
\* drained; the deferred wg.Done() runs.
Exit(w) ==
  /\ ~crashed
  /\ wpc[w] = "idle"
  /\ jobs = <<>>
  /\ jobsClosed
  /\ wpc' = [wpc EXCEPT ![w] = "exited"]
  /\ wg' = wg - 1
  /\ UNCHANGED << hpc, paramVars, chanVars, wjob, elapsed, wres, collectVars,
                  resp, reqCancelled, crashed, store, histVars >>
  /\ UNCHANGED offBatch

\* Whether worker w is inside a call that runs on whatever its context says:
\* Parse ignores its context (part_002:39).  SaveEmail returns when its
\* context is done (SaveEmailOutcomes).
StillRunning(w) == wpc[w] = "parse"

\* Time passes for the item worker w is processing.
Tick(w) ==
  /\ ~crashed
  /\ StillRunning(w)
  /\ elapsed[w] < MaxElapsedMs
  /\ elapsed' = [elapsed EXCEPT ![w] = @ + TickMs]
  /\ UNCHANGED << hpc, paramVars, chanVars, wg, wpc, wjob, wres, collectVars,
                  resp, reqCancelled, crashed, store, histVars >>
  /\ UNCHANGED offBatch

\* Fault: the error's text is dropped from the item's result.
ErrorResultNoMessage(i, msg) == [index |-> i, status |-> "error", email_id |-> 0, error |-> ""]

ErrorResult(i, msg) == [index |-> i, status |-> "error", email_id |-> 0, error |-> msg]
OkResult(i, ent) == [index |-> i, status |-> "ok", email_id |-> ent.id, error |-> ""]

\* Fault: the worker does not look at the error of Parse.
ItemParseFailedNever(r) == FALSE

\* parserController.go:138: if err == nil { err = pc.repo.SaveEmail(...) }
ItemParseFailed(r) == r.err # ""

\* parserController.go:137-148: Parse returns; on an error the worker cancels
\* the context and goes to send the error result, otherwise it calls SaveEmail.
ParseReturn(w) ==
  /\ ~crashed
  /\ wpc[w] = "parse"
  /\ LET i == wjob[w]
         r == Parse(inputs[i + 1], i)
     IN  /\ parsed' = [parsed EXCEPT ![i] = @ + 1]
         /\ IF ItemParseFailed(r)
            THEN /\ wres' = [wres EXCEPT ![w] = ErrorResult(i, r.err)]
                 /\ wpc' = [wpc EXCEPT ![w] = "emit"]
                 /\ elapsed' = [elapsed EXCEPT ![w] = 0]
                 /\ outcome' = [outcome EXCEPT ![i] = "parse_err"]
            ELSE /\ wpc' = [wpc EXCEPT ![w] = "save"]
                 /\ UNCHANGED << wres, elapsed, outcome >>
  /\ UNCHANGED << hpc, paramVars, chanVars, wg, wjob, collectVars, resp,
                  reqCancelled, crashed, store, saved, emitted >>
  /\ UNCHANGED offBatch

\* parserController.go:139-149: SaveEmail returns; the worker cancels the
\* context and goes to send the item's result.
SaveReturn(w) ==
  /\ ~crashed
  /\ wpc[w] = "save"
  /\ LET i == wjob[w]
         ent == Parse(inputs[i + 1], i).ent
     IN  \E o \in SaveEmailOutcomes(IctxDone(w), DeadlinePassed(w), ent, store) :
           /\ store' = o.store
           /\ saved' = [saved EXCEPT ![i] = @ + 1]
           /\ IF o.err # ""
              THEN /\ wres' = [wres EXCEPT ![w] = ErrorResult(i, o.err)]
                   /\ outcome' = [outcome EXCEPT ![i] = "save_err"]
              ELSE /\ wres' = [wres EXCEPT ![w] = OkResult(i, ent)]
                   /\ outcome' = [outcome EXCEPT ![i] = "ok"]
  /\ wpc' = [wpc EXCEPT ![w] = "emit"]
  /\ elapsed' = [elapsed EXCEPT ![w] = 0]
  /\ UNCHANGED << hpc, paramVars, chanVars, wg, wjob, collectVars, resp,
                  reqCancelled, crashed, parsed, emitted >>
  /\ UNCHANGED offBatch

\* parserController.go:146,149: results <- BatchItemResult{...}; the send
\* blocks while the buffer is full.  The worker then waits for the next job.
Emit(w) ==
  /\ ~crashed
  /\ wpc[w] = "emit"
  /\ Len(results) < ResultsCap(Len(inputs))
  /\ results' = Append(results, wres[w])
  /\ emitted' = [emitted EXCEPT ![wjob[w]] = @ + 1]
  /\ wres' = [wres EXCEPT ![w] = ZeroResult]
  /\ wjob' = [wjob EXCEPT ![w] = 0]
  /\ wpc' = [wpc EXCEPT ![w] = "idle"]
  /\ UNCHANGED << hpc, paramVars, enq, jobs, jobsClosed, resultsClosed, wg,
                  elapsed, collectVars, resp, reqCancelled, crashed, store,
                  parsed, saved, outcome >>
  /\ UNCHANGED offBatch

\* parserController.go:160-163: a worker goroutine has no recover, so a panic
\* inside Parse or SaveEmail ends the process: every goroutine and all of the
\* handler's memory are gone; the table and what was already written remain.
Panic(w) ==
  /\ ~crashed
  /\ wpc[w] \in {"parse", "save"}
  /\ crashed' = TRUE
  /\ hpc' = "crashed"
  /\ inputs' = <<>>
  /\ maxWorkers' = 0
  /\ itemTimeout' = 0
  /\ enq' = 0
  /\ jobs' = <<>>
  /\ jobsClosed' = FALSE
  /\ results' = <<>>
  /\ resultsClosed' = FALSE
  /\ wg' = 0
  /\ wpc' = <<>>
  /\ wjob' = <<>>
  /\ elapsed' = <<>>
  /\ wres' = <<>>
  /\ out' = <<>>
  /\ okCnt' = 0
  /\ failCnt' = 0
  /\ reqCancelled' = FALSE
  /\ parsed' = <<>>
  /\ saved' = <<>>
  /\ emitted' = <<>>
  /\ order' = <<>>
  /\ outcome' = <<>>
  /\ UNCHANGED << resp, store >>
  /\ UNCHANGED offBatch

HandlerStep ==
  \/ Bind
  \/ Spawn
  \/ Enqueue
  \/ CloseJobs
  \/ Closer
  \/ Collect
  \/ Respond

\* A step of a worker goroutine in which no call panics.
WorkerStep ==
  \/ \E w \in Workers : Take(w)
  \/ \E w \in Workers : Exit(w)
  \/ \E w \in Workers : ParseReturn(w)
  \/ \E w \in Workers : SaveReturn(w)
  \/ \E w \in Workers : Emit(w)

\* Every step in which each call into the parser or the repository returns.
NextReturning ==
  \/ HandlerStep
  \/ WorkerStep
  \/ RequestCancel
  \/ \E w \in Workers : Tick(w)

Next ==
  \/ NextReturning
  \/ \E w \in Workers : Panic(w)

Spec == Init /\ [][Next]_vars

\* The scheduler runs the handler while it can take a step and some worker
\* while one can, and every call into the parser or the repository returns.
Fairness == WF_vars(HandlerStep) /\ WF_vars(WorkerStep)

LiveSpec == Init /\ [][NextReturning]_vars /\ Fairness


\* ------------------------------------------------- CacheEmailRepo: operations
\* c.rdb.Get(ctx, key).Bytes(): the call fails, or the key is absent
\* (redis.Nil), or its value is returned.
RedisGet(id, fail) ==
  IF fail THEN [err |-> "redis error", bs |-> <<>>]
  ELSE IF ~cache[id].has THEN [err |-> "redis: nil", bs |-> <<>>]
  ELSE [err |-> "", bs |-> cache[id].bs]

\* Fault: the cached value is never used.
CacheHitNever(r) == FALSE

\* cacheRepo.go:42-44: err == nil && len(bs) > 0 && json.Unmarshal(bs, &e) == nil
CacheHit(r) == r.err = "" /\ Len(r.bs) > 0 /\ Unmarshal(r.bs).ok

\* underlying.GetByID: a database error, ErrEmailNotFound, or the stored row.
UnderGetOutcomes(id) ==
  {[err |-> "db error", ent |-> ZeroEntity]}
    \cup (IF under[id] = 0
          THEN {[err |-> "email not found", ent |-> ZeroEntity]}
          ELSE {[err |-> "", ent |-> Entity(id, under[id])]})

\* The place of an entity's version in the order of the writes to the
\* underlying store (0: never written).
StoredAt(e) ==
  LET at == {i \in 1..Len(cstored[e.id]) : cstored[e.id][i] = e.ver}
  IN  IF at = {} THEN 0 ELSE CHOOSE i \in at : TRUE

Max2(a, b) == IF a >= b THEN a ELSE b

Return(c, op, err, ent) ==
  /\ cret' = [cret EXCEPT ![c] = [op |-> op, err |-> err, ent |-> ent]]
  /\ cpc' = [cpc EXCEPT ![c] = "idle"]

\* A caller enters GetByID(id): cacheRepo.go:39-40.
GetStart(c, id) ==
  /\ cpc[c] = "idle"
  /\ cpc' = [cpc EXCEPT ![c] = "get_cache"]
  /\ carg' = [carg EXCEPT ![c] = Entity(id, 0)]
  /\ cseen' = [cseen EXCEPT ![c] = NoSeen]
  /\ casked' = [casked EXCEPT ![c] = FALSE]
  /\ cret' = [cret EXCEPT ![c] = NoRet]
  /\ cfloor' = [cfloor EXCEPT ![c] = csaved[id]]
  /\ UNCHANGED << rdbNil, cache, under, nextVer, cstored, csaved >>
  /\ UNCHANGED offCache

\* cacheRepo.go:41-48: with a client, read the key; a decodable value is
\* returned at once.
GetCache(c) ==
  /\ cpc[c] = "get_cache"
  /\ IF rdbNil
     THEN /\ cpc' = [cpc EXCEPT ![c] = "get_under"]
          /\ UNCHANGED << cseen, cret >>
     ELSE \E fail \in BOOLEAN :
            LET r == RedisGet(carg[c].id, fail)
            IN  /\ cseen' = [cseen EXCEPT ![c] = r]
                /\ IF CacheHit(r)
                   THEN Return(c, "get", "", Unmarshal(r.bs).e)
                   ELSE /\ cpc' = [cpc EXCEPT ![c] = "get_under"]
                        /\ UNCHANGED cret
  /\ UNCHANGED << rdbNil, cache, under, nextVer, carg, casked, cstored, csaved, cfloor >>
  /\ UNCHANGED offCache

\* cacheRepo.go:49-53: ask the underlying repository; an error is returned,
\* and without a client so is the entity.
GetUnder(c) ==
  /\ cpc[c] = "get_under"
  /\ casked' = [casked EXCEPT ![c] = TRUE]
  /\ \E o \in UnderGetOutcomes(carg[c].id) :
       IF o.err # ""
       THEN Return(c, "get", o.err, ZeroEntity) /\ UNCHANGED carg
       ELSE IF rdbNil
       THEN Return(c, "get", "", o.ent) /\ UNCHANGED carg
       ELSE /\ cpc' = [cpc EXCEPT ![c] = "get_fill"]
            /\ carg' = [carg EXCEPT ![c] = o.ent]
            /\ UNCHANGED cret
  /\ UNCHANGED << rdbNil, cache, under, nextVer, cseen, cstored, csaved, cfloor >>
  /\ UNCHANGED offCache

\* cacheRepo.go:53-58: store the entity under the key (an error of Set is
\* ignored) and return it.
GetFill(c) ==
  /\ cpc[c] = "get_fill"
  /\ \E fail \in BOOLEAN :
       cache' = IF fail THEN cache
                ELSE [cache EXCEPT ![carg[c].id] = [has |-> TRUE, bs |-> Marshal(carg[c])]]
  /\ Return(c, "get", "", carg[c])
  /\ UNCHANGED << rdbNil, under, nextVer, carg, cseen, casked, cstored, csaved, cfloor >>
  /\ UNCHANGED offCache

\* A caller enters SaveEmail(e) with the next version of the entity id.
SaveStart(c, id) ==
  /\ cpc[c] = "idle"
  /\ nextVer <= MaxVer
  /\ cpc' = [cpc EXCEPT ![c] = "save_under"]
  /\ carg' = [carg EXCEPT ![c] = Entity(id, nextVer)]
  /\ nextVer' = nextVer + 1
  /\ cseen' = [cseen EXCEPT ![c] = NoSeen]
  /\ casked' = [casked EXCEPT ![c] = FALSE]
  /\ cret' = [cret EXCEPT ![c] = NoRet]
  /\ UNCHANGED << rdbNil, cache, under, cstored, csaved, cfloor >>
  /\ UNCHANGED offCache

\* cacheRepo.go:30-32: underlying.SaveEmail; its error is returned.
SaveUnder(c) ==
  /\ cpc[c] = "save_under"
  /\ \E ok \in BOOLEAN :
       IF ok
       THEN /\ under' = [under EXCEPT ![carg[c].id] = carg[c].ver]
            /\ cstored' = [cstored EXCEPT ![carg[c].id] = Append(@, carg[c].ver)]
            /\ cpc' = [cpc EXCEPT ![c] = "save_del"]
            /\ UNCHANGED cret
       ELSE /\ Return(c, "save", "db error", ZeroEntity)
            /\ UNCHANGED << under, cstored >>
  /\ UNCHANGED << rdbNil, cache, nextVer, carg, cseen, casked, csaved, cfloor >>
  /\ UNCHANGED offCache

\* cacheRepo.go:33-35: c.rdb.Del(ctx, key), its error ignored.  On a nil
\* client the call dereferences nil and panics.
SaveDel(c) ==
  /\ cpc[c] = "save_del"
  /\ IF rdbNil
     THEN /\ cpc' = [cpc EXCEPT ![c] = "panicked"]
          /\ cret' = [cret EXCEPT ![c] = [op |-> "save", err |-> "panic: nil pointer dereference",
                                          ent |-> ZeroEntity]]
          /\ UNCHANGED << cache, csaved >>
     ELSE /\ \E fail \in BOOLEAN :
               /\ cache' = IF fail THEN cache ELSE [cache EXCEPT ![carg[c].id] = NoEntry]
               /\ csaved' = IF fail THEN csaved
                            ELSE [csaved EXCEPT ![carg[c].id] = Max2(@, StoredAt(carg[c]))]
          /\ Return(c, "save", "", ZeroEntity)
  /\ UNCHANGED << rdbNil, under, nextVer, carg, cseen, casked, cstored, cfloor >>
  /\ UNCHANGED offCache

\* The key's TTL (c.ttl, cacheRepo.go:55) runs out.
Expire(id) ==
  /\ cache[id].has
  /\ cache' = [cache EXCEPT ![id] = NoEntry]
  /\ UNCHANGED << rdbNil, under, nextVer, cpc, carg, cseen, casked, cret, cstored, csaved, cfloor >>
  /\ UNCHANGED offCache

\* Another writer sets the key (cacheRepo_test.go:90).
ForeignSet(id, bs) ==
  /\ ~rdbNil
  /\ cache[id] # [has |-> TRUE, bs |-> bs]
  /\ cache' = [cache EXCEPT ![id] = [has |-> TRUE, bs |-> bs]]
  /\ UNCHANGED << rdbNil, under, nextVer, cpc, carg, cseen, casked, cret, cstored, csaved, cfloor >>
  /\ UNCHANGED offCache

\* The row is removed from the underlying store behind the repository's back
\* (cacheRepo_test.go:55).
UnderDelete(id) ==
  /\ under[id] # 0
  /\ under' = [under EXCEPT ![id] = 0]
  /\ UNCHANGED << rdbNil, cache, nextVer, cpc, carg, cseen, casked, cret, cstored, csaved, cfloor >>
  /\ UNCHANGED offCache

\* NewCacheEmailRepo accepts any client, nil included (cacheRepo.go:20-22).
CacheInit ==
  /\ BatchStart /\ CacheStart /\ rdbNil \in BOOLEAN /\ ServeStart /\ env = UnsetEnv
  /\ TextStart /\ tin = <<>>
  /\ BuildStart
  /\ QueryStart
  /\ PoolStart

CacheNext ==
  \/ \E c \in Callers, id \in Ids : GetStart(c, id)
  \/ \E c \in Callers : GetCache(c)
  \/ \E c \in Callers : GetUnder(c)
  \/ \E c \in Callers : GetFill(c)
  \/ \E c \in Callers, id \in Ids : SaveStart(c, id)
  \/ \E c \in Callers : SaveUnder(c)
  \/ \E c \in Callers : SaveDel(c)
  \/ \E id \in Ids : Expire(id)
  \/ \E id \in Ids, bs \in ForeignValues : ForeignSet(id, bs)
  \/ \E id \in Ids : UnderDelete(id)

CacheSpec == CacheInit /\ [][CacheNext]_vars

\* ------------------------------------------------- service start-up and POST /parse
\* MustLoad builds HTTPConfig{Host, ShutdownTimeout} and nothing reads
\* HTTP_REQUEST_TIMEOUT: RequestTimeout keeps the zero value.
LoadRequestTimeout(e) == 0

\* main.go:103-108
EffectiveRequestTimeout(d) == IF d <= 0 THEN DefaultRequestTimeoutMs ELSE d

\* config.MustLoad
MustLoad ==
  /\ boot = "start"
  /\ boot' = "loaded"
  /\ cfgRequestTimeout' = LoadRequestTimeout(env)
  /\ UNCHANGED << env, reqTimeout, spc, sreq, sraw, sent, sclock, sparse, ssave,
                  scode, sbody, sstore, sstore0, mwpc, mwcode >>
  /\ UNCHANGED offServe

\* main.go:103-109: r.Use(middleware.TimeoutMiddleware(reqTimeout))
UseTimeout ==
  /\ boot = "loaded"
  /\ boot' = "serving"
  /\ reqTimeout' = EffectiveRequestTimeout(cfgRequestTimeout)
  /\ UNCHANGED << env, cfgRequestTimeout, spc, sreq, sraw, sent, sclock, sparse,
                  ssave, scode, sbody, sstore, sstore0, mwpc, mwcode >>
  /\ UNCHANGED offServe

\* The request's context (timeoutMiddleware.go:18) is done.
RequestCtxDone == reqTimeout > 0 /\ sclock >= reqTimeout

\* PostgresEmailRepo.GetByID: the context's error, a database error,
\* ErrEmailNotFound, or the row with that id.
GetByIDOutcomes(ctxDone, id, st) ==
  IF ctxDone
  THEN {[err |-> CtxErr(TRUE), ent |-> ZeroEnt]}
  ELSE {[err |-> "db error", ent |-> ZeroEnt]}
         \cup (IF \E r \in st : r.id = id
               THEN {[err |-> "", ent |-> r] : r \in {q \in st : q.id = id}}
               ELSE {[err |-> "email not found", ent |-> ZeroEnt]})

\* A request to POST /parse arrives: TimeoutMiddleware starts the handler in
\* a goroutine and waits in its select; with d <= 0 it calls the handler
\* itself (timeoutMiddleware.go:13-34).
Arrive ==
  /\ boot = "serving"
  /\ spc \in {"idle", "done"}
  /\ mwpc \in {"idle", "returned"}
  /\ sreq < MaxRequests
  /\ \E raw \in Raws : sraw' = raw
  /\ sreq' = sreq + 1
  /\ spc' = "read"
  /\ mwpc' = IF reqTimeout <= 0 THEN "inline" ELSE "select"
  /\ sent' = ZeroEnt
  /\ sclock' = 0
  /\ sparse' = "none"
  /\ ssave' = "none"
  /\ scode' = 0
  /\ sbody' = NoBody
  /\ sstore0' = sstore
  /\ mwcode' = 0
  /\ UNCHANGED << env, boot, cfgRequestTimeout, reqTimeout, sstore >>
  /\ UNCHANGED offServe

\* parserController.go:213-219: io.ReadAll of the body.
ReadBody ==
  /\ spc = "read"
  /\ \E ok \in BOOLEAN :
       IF ok
       THEN spc' = "parse" /\ UNCHANGED << scode, sbody >>
       ELSE /\ scode' = StatusBadRequest
            /\ sbody' = [error |-> "invalid request body", ent |-> ZeroEnt]
            /\ spc' = "done"
  /\ UNCHANGED << env, boot, cfgRequestTimeout, reqTimeout, sreq, sraw, sent, sclock,
                  sparse, ssave, sstore, sstore0, mwpc, mwcode >>
  /\ UNCHANGED offServe

\* Time passes while the handler runs.
STick ==
  /\ spc \in {"read", "parse", "save", "refetch"}
  /\ sclock < MaxElapsedMs
  /\ sclock' = sclock + TickMs
  /\ UNCHANGED << env, boot, cfgRequestTimeout, reqTimeout, spc, sreq, sraw, sent,
                  sparse, ssave, scode, sbody, sstore, sstore0, mwpc, mwcode >>
  /\ UNCHANGED offServe

\* Fault: the error of Parse is not looked at.
ParseFailedNever(r) == FALSE

\* parserController.go:222: if err != nil
ParseFailed(r) == r.err # ""

\* parserController.go:221-226: Parse; its error ends the request with 500.
SParse ==
  /\ spc = "parse"
  /\ LET r == Parse(sraw, sreq)
     IN  /\ sparse' = IF r.err # "" THEN "err" ELSE "ok"
         /\ sent' = r.ent
         /\ IF ParseFailed(r)
            THEN /\ scode' = StatusInternalServerError
                 /\ sbody' = [error |-> "processing failed", ent |-> ZeroEnt]
                 /\ spc' = "done"
            ELSE spc' = "save" /\ UNCHANGED << scode, sbody >>
  /\ UNCHANGED << env, boot, cfgRequestTimeout, reqTimeout, sreq, sraw, sclock,
                  ssave, sstore, sstore0, mwpc, mwcode >>
  /\ UNCHANGED offServe

\* parserController.go:228-237: SaveEmail under a 5s child of the request's
\* context; its error ends the request with 500.
SSave ==
  /\ spc = "save"
  /\ \E o \in SaveEmailOutcomes(RequestCtxDone, RequestCtxDone, sent, sstore) :
       /\ sstore' = o.store
       /\ IF o.err # ""
          THEN /\ ssave' = "err"
               /\ scode' = StatusInternalServerError
               /\ sbody' = [error |-> "failed to save email", ent |-> ZeroEnt]
               /\ spc' = "done"
          ELSE /\ ssave' = "ok"
               /\ spc' = "refetch"
               /\ UNCHANGED << scode, sbody >>
  /\ UNCHANGED << env, boot, cfgRequestTimeout, reqTimeout, sreq, sraw, sent, sclock,
                  sparse, sstore0, mwpc, mwcode >>
  /\ UNCHANGED offServe

\* parserController.go:239-246: GetByID(ent.ID); 201 with the stored row, or
\* with the parsed entity when the re-fetch fails.
SRefetch ==
  /\ spc = "refetch"
  /\ \E o \in GetByIDOutcomes(RequestCtxDone, sent.id, sstore) :
       /\ scode' = StatusCreated
       /\ sbody' = [error |-> "", ent |-> IF o.err # "" THEN sent ELSE o.ent]
       /\ spc' = "done"
  /\ UNCHANGED << env, boot, cfgRequestTimeout, reqTimeout, sreq, sraw, sent, sclock,
                  sparse, ssave, sstore, sstore0, mwpc, mwcode >>
  /\ UNCHANGED offServe

\* timeoutMiddleware.go:41-43: the context is done first: 504.
MwTimeout ==
  /\ mwpc = "select"
  /\ RequestCtxDone
  /\ mwcode' = StatusGatewayTimeout
  /\ mwpc' = "returned"
  /\ UNCHANGED << env, boot, cfgRequestTimeout, reqTimeout, spc, sreq, sraw, sent,
                  sclock, sparse, ssave, scode, sbody, sstore, sstore0 >>
  /\ UNCHANGED offServe

\* timeoutMiddleware.go:15-16 and 37-38: the handler has returned.
MwDone ==
  /\ mwpc \in {"select", "inline"}
  /\ spc = "done"
  /\ mwpc' = "returned"
  /\ UNCHANGED << env, boot, cfgRequestTimeout, reqTimeout, spc, sreq, sraw, sent,
                  sclock, sparse, ssave, scode, sbody, sstore, sstore0, mwcode >>
  /\ UNCHANGED offServe

ServeInit ==
  /\ BatchStart /\ CacheStart /\ rdbNil = FALSE /\ ServeStart /\ env \in EnvValues
  /\ TextStart /\ tin = <<>>
  /\ BuildStart
  /\ QueryStart
  /\ PoolStart

ServeNext ==
  \/ MustLoad
  \/ UseTimeout
  \/ Arrive
  \/ ReadBody
  \/ STick
  \/ SParse
  \/ SSave
  \/ SRefetch
  \/ MwTimeout
  \/ MwDone

ServeSpec == ServeInit /\ [][ServeNext]_vars

\* ==================================================================
\* CleanText (package lang)
\* ------------------------------------------------- text: characters and strings
\* A text is a sequence of characters, each a one-character string; "NBSP"
\* stands for U+00A0 and "EMDASH" for U+2014.  Indices are 1-based; 0 is the
\* "not found" that Go reports as -1.
LowerLetters == <<"a", "b", "c", "d", "e", "f", "g", "h", "i", "j", "k", "l", "m", "n", "o", "p", "q", "r", "s", "t", "u", "v", "w", "x", "y", "z">>
UpperLetters == <<"A", "B", "C", "D", "E", "F", "G", "H", "I", "J", "K", "L", "M", "N", "O", "P", "Q", "R", "S", "T", "U", "V", "W", "X", "Y", "Z">>
DigitSet == {Digits[k] : k \in 1..10}
LetterSet == {LowerLetters[k] : k \in 1..26} \cup {UpperLetters[k] : k \in 1..26}
\* regexp \s
AsciiSpace == {" ", "\n", "\r", "\t"}
\* unicode.IsSpace
UnicodeSpace == AsciiSpace \cup {"NBSP"}
\* regexp \w
WordSet == LetterSet \cup DigitSet \cup {"_"}

\* strings.ToLower, and the folding of (?i), on ASCII
ToLowerChar(c) ==
  IF \E k \in 1..26 : UpperLetters[k] = c
  THEN LowerLetters[CHOOSE k \in 1..26 : UpperLetters[k] = c]
  ELSE c
ToLower(s) == [k \in 1..Len(s) |-> ToLowerChar(s[k])]

HasAt(s, i, w) ==
  /\ i >= 1
  /\ i + Len(w) - 1 <= Len(s)
  /\ \A k \in 1..Len(w) : s[i + k - 1] = w[k]
HasFoldAt(s, i, w) ==
  /\ i >= 1
  /\ i + Len(w) - 1 <= Len(s)
  /\ \A k \in 1..Len(w) : ToLowerChar(s[i + k - 1]) = w[k]

\* strings.Index from position i on
RECURSIVE IndexFrom(_, _, _)
IndexFrom(s, w, i) ==
  IF i + Len(w) - 1 > Len(s) THEN 0
  ELSE IF HasAt(s, i, w) THEN i
  ELSE IndexFrom(s, w, i + 1)
Index(s, w) == IndexFrom(s, w, 1)
Contains(s, w) == Index(s, w) # 0

\* The end (exclusive) of the run of characters of the set cs that starts at i.
RECURSIVE RunEnd(_, _, _)
RunEnd(s, i, cs) ==
  IF i <= Len(s) /\ s[i] \in cs THEN RunEnd(s, i + 1, cs) ELSE i
\* The same for the characters outside cs.
RECURSIVE RunEndNot(_, _, _)
RunEndNot(s, i, cs) ==
  IF i <= Len(s) /\ s[i] \notin cs THEN RunEndNot(s, i + 1, cs) ELSE i
\* The position of the next "\n" at or after i, or Len(s) + 1: (?m)$
EndOfLine(s, i) == RunEndNot(s, i, {"\n"})
\* (?m)^
LineStart(s, i) == i = 1 \/ (i >= 2 /\ i <= Len(s) + 1 /\ s[i - 1] = "\n")

\* regexp.ReplaceAllString: ends[i] is 0 when the pattern does not match at
\* i, else the position after the match that starts at i; matches are taken
\* left to right, without overlap.
RECURSIVE ReplaceAllString(_, _, _, _)
ReplaceAllString(s, ends, repl, i) ==
  IF i > Len(s) THEN <<>>
  ELSE IF ends[i] # 0 THEN repl \o ReplaceAllString(s, ends, repl, ends[i])
  ELSE <<s[i]>> \o ReplaceAllString(s, ends, repl, i + 1)

\* strings.ReplaceAll for a non-empty old
ReplaceAll(s, old, new) ==
  ReplaceAllString(s, [i \in 1..Len(s) |-> IF HasAt(s, i, old) THEN i + Len(old) ELSE 0], new, 1)

\* strings.TrimSpace
RECURSIVE TrimRight(_)
TrimRight(s) ==
  IF s # <<>> /\ s[Len(s)] \in UnicodeSpace THEN TrimRight(SubSeq(s, 1, Len(s) - 1)) ELSE s
TrimSpace(s) ==
  LET a == RunEnd(s, 1, UnicodeSpace)
  IN  TrimRight(SubSeq(s, a, Len(s)))

\* strings.Split(s, "\n") and strings.Join(lines, "\n")
RECURSIVE Split(_)
Split(s) ==
  LET e == EndOfLine(s, 1)
  IN  IF e > Len(s) THEN <<s>>
      ELSE <<SubSeq(s, 1, e - 1)>> \o Split(SubSeq(s, e + 1, Len(s)))
RECURSIVE Join(_)
Join(lines) ==
  IF lines = <<>> THEN <<>>
  ELSE IF Len(lines) = 1 THEN lines[1]
  ELSE lines[1] \o <<"\n">> \o Join(Tail(lines))

\* ------------------------------------------------- text: the patterns
\* The word lists of the patterns are cut to the words the inputs use, in the
\* order of the source.
SignatureWords == << <<"r", "e", "g", "a", "r", "d", "s">>, <<"b", "e", "s", "t", " ", "r", "e", "g", "a", "r", "d", "s">>, <<"b", "e", "s", "t">>, <<"t", "h", "a", "n", "k", "s">> >>
HeaderWords == { <<"f", "r", "o", "m", ":">>, <<"t", "o", ":">>, <<"c", "c", ":">> }
ForwardWords == { <<"b", "e", "g", "i", "n", " ", "f", "o", "r", "w", "a", "r", "d", "e", "d", " ", "m", "e", "s", "s", "a", "g", "e", ":">>, <<"f", "o", "r", "w", "a", "r", "d", "e", "d", " ", "m", "e", "s", "s", "a", "g", "e", ":">> }
OriginalMarks == { <<"-", "-", "-", "-", "-", "o", "r", "i", "g", "i", "n", "a", "l", " ", "m", "e", "s", "s", "a", "g", "e", "-", "-", "-", "-", "-">> }

\* The alternative of the word list that matches at i (the first in the
\* order of the list), 0 if none.
SignatureWordAt(s, i) ==
  LET K == {k \in 1..Len(SignatureWords) : HasFoldAt(s, i, SignatureWords[k])}
  IN  IF K = {} THEN 0 ELSE CHOOSE k \in K : \A m \in K : k <= m

\* on\s+.+wrote... and am\s+.+schrieb...: the opener at i, white space, at
\* least one character that is not a newline, the verb on that line, and the
\* rest of the line.  The value is the end of that line, 0 without a match.
ReplyBodyEnd(s, i, opener, verb) ==
  IF ~HasFoldAt(s, i, opener) THEN 0
  ELSE LET a   == i + Len(opener)
           b   == RunEnd(s, a, AsciiSpace)
           eol == EndOfLine(s, b)
       IN  IF b > a /\ \E w \in b..(eol - 1) :
                         /\ HasFoldAt(s, w, verb)
                         /\ (w > b \/ (b - a >= 2 /\ s[b - 1] # "\n"))
           THEN eol ELSE 0

ReplyBodyAnywhere(s, i) ==
  LET on == ReplyBodyEnd(s, i, <<"o", "n">>, <<"w", "r", "o", "t", "e">>)
  IN  IF on # 0 THEN on ELSE ReplyBodyEnd(s, i, <<"a", "m">>, <<"s", "c", "h", "r", "i", "e", "b">>)

\* (?mi)(?:^|[\r\n>]\s*)(?:on\s+.+?wrote:?.*$|am\s+.+?schrieb:?.*$)
reReplyHeaderAnywhere(s) ==
  [i \in 1..Len(s) |->
     IF LineStart(s, i) /\ ReplyBodyAnywhere(s, i) # 0 THEN ReplyBodyAnywhere(s, i)
     ELSE IF s[i] \in {"\r", "\n", ">"}
     THEN ReplyBodyAnywhere(s, RunEnd(s, i + 1, AsciiSpace))
     ELSE 0]

\* (?mi)(?:^|[\r\n]|[\.!\?]\s)(?:regards|...)[\s\,\.\-]* matches from i
reSignatureAnywhere(s, i) ==
  \/ LineStart(s, i) /\ SignatureWordAt(s, i) # 0
  \/ s[i] \in {"\r", "\n"} /\ SignatureWordAt(s, i + 1) # 0
  \/ /\ s[i] \in {".", "!", "?"}
     /\ i + 1 <= Len(s)
     /\ s[i + 1] \in AsciiSpace
     /\ SignatureWordAt(s, i + 2) # 0

\* FindStringIndex of reSignatureAnywhere: loc[0], 0 for nil
RECURSIVE FindSignature(_, _)
FindSignature(s, i) ==
  IF i > Len(s) THEN 0
  ELSE IF reSignatureAnywhere(s, i) THEN i
  ELSE FindSignature(s, i + 1)

\* (?mi)^(?:on\s+.+wrote:.*$|am\s+.+schrieb:.*$|on\s+.+wrote:.*$)
reReplyHeader(s) ==
  [i \in 1..Len(s) |->
     IF ~LineStart(s, i) THEN 0
     ELSE LET on == ReplyBodyEnd(s, i, <<"o", "n">>, <<"w", "r", "o", "t", "e", ":">>)
          IN  IF on # 0 THEN on ELSE ReplyBodyEnd(s, i, <<"a", "m">>, <<"s", "c", "h", "r", "i", "e", "b", ":">>)]

\* (?mi)^(?:begin forwarded message:|forwarded message:|...).*
reForwardHeader(s) ==
  [i \in 1..Len(s) |->
     IF LineStart(s, i) /\ \E w \in ForwardWords : HasFoldAt(s, i, w)
     THEN EndOfLine(s, i) ELSE 0]

\* (?mi)-----Original Message-----|...
reOriginalMessage(s) ==
  [i \in 1..Len(s) |->
     IF \E w \in OriginalMarks : HasFoldAt(s, i, w)
     THEN i + Len(CHOOSE w \in OriginalMarks : HasFoldAt(s, i, w)) ELSE 0]

\* (?m)^[>\|].*$ on a trimmed line
reQuoteLine(trim) == trim # <<>> /\ trim[1] \in {">", "|"}

\* (?mi)^(--\s*$|__\s*$|-\s*$) on a trimmed line
reSignatureDelimiter(trim) ==
  \E d \in {<<"-", "-">>, <<"_", "_">>, <<"-">>} :
    /\ HasAt(trim, 1, d)
    /\ RunEnd(trim, Len(d) + 1, AsciiSpace) > Len(trim)

\* (?mi)^(?:from|sent|to|...):\s+.*$ on a trimmed line
reHeaderLike(trim) ==
  \E w \in HeaderWords :
    /\ HasFoldAt(trim, 1, w)
    /\ Len(trim) > Len(w)
    /\ trim[Len(w) + 1] \in AsciiSpace

\* \b before a word character at i
WordBoundary(s, i) == i = 1 \/ s[i - 1] \notin WordSet

\* (?i)\bhttps?://[^\s]+|\bwww\.[^\s]+
reURL(s) ==
  [i \in 1..Len(s) |->
     LET a == IF HasFoldAt(s, i, <<"h", "t", "t", "p", ":", "/", "/">>) THEN i + 7
              ELSE IF HasFoldAt(s, i, <<"h", "t", "t", "p", "s", ":", "/", "/">>) THEN i + 8
              ELSE IF HasFoldAt(s, i, <<"w", "w", "w", ".">>) THEN i + 4
              ELSE 0
         e == RunEndNot(s, a, AsciiSpace)
     IN  IF a # 0 /\ WordBoundary(s, i) /\ e > a THEN e ELSE 0]

\* (?i)[a-z0-9._%+\-]+@[a-z0-9.\-]+\.[a-z]{2,}
reEmail(s) ==
  [i \in 1..Len(s) |->
     LET j == RunEnd(s, i, LetterSet \cup DigitSet \cup {".", "_", "%", "+", "-"})
         k == RunEnd(s, j + 1, LetterSet \cup DigitSet \cup {".", "-"})
         D == {d \in (j + 2)..(k - 1) :
                 s[d] = "." /\ d + 2 <= k - 1 /\ s[d + 1] \in LetterSet /\ s[d + 2] \in LetterSet}
     IN  IF j > i /\ j <= Len(s) /\ s[j] = "@" /\ D # {}
         THEN RunEnd(s, (CHOOSE d \in D : \A m \in D : m <= d) + 1, LetterSet)
         ELSE 0]

\* (?mi)^(?:regards|...)[\s\,\.\-]*
reSignatureWords(s) ==
  [i \in 1..Len(s) |->
     IF LineStart(s, i) /\ SignatureWordAt(s, i) # 0
     THEN RunEnd(s, i + Len(SignatureWords[SignatureWordAt(s, i)]),
                 AsciiSpace \cup {",", ".", "-"})
     ELSE 0]

\* \s{2,}
reMultiWS(s) ==
  [i \in 1..Len(s) |->
     IF RunEnd(s, i, AsciiSpace) >= i + 2 THEN RunEnd(s, i, AsciiSpace) ELSE 0]

\* \n{3,}
reMultiNewlines(s) ==
  [i \in 1..Len(s) |->
     IF RunEnd(s, i, {"\n"}) >= i + 3 THEN RunEnd(s, i, {"\n"}) ELSE 0]

\* (?s)<[^>]*>
reTags(s) ==
  [i \in 1..Len(s) |->
     IF s[i] = "<" /\ IndexFrom(s, <<">">>, i + 1) # 0
     THEN IndexFrom(s, <<">">>, i + 1) + 1 ELSE 0]

\* ------------------------------------------------- text: functions of the package
\* findSignatureIndex: the first candidate, in the order of the list, that
\* occurs in s decides, at its first occurrence.
findSignatureIndex(s) ==
  LET candidates == << <<"\n", "-", "-">>, <<"\n", "-", "-", " ">>, <<"\n", "EMDASH">>,
                       <<"\n", "EMDASH", " ">>, <<"\n", "-", "-", "\n">>,
                       <<" ", "-", "-", " ">>, <<" ", "EMDASH", " ">> >>
      K == {k \in 1..Len(candidates) : Index(s, candidates[k]) # 0}
  IN  IF K = {} THEN 0
      ELSE Index(s, candidates[CHOOSE k \in K : \A m \in K : k <= m])

looksLikeHTML(s) ==
  LET l == ToLower(s)
  IN  \/ Contains(l, <<"<", "h", "t", "m", "l">>) \/ Contains(l, <<"<", "b", "o", "d", "y">>)
      \/ Contains(l, <<"<", "d", "i", "v">>) \/ Contains(l, <<"<", "s", "p", "a", "n">>) \/ Contains(l, <<"<", "p">>)
      \/ Contains(l, <<"&", "n", "b", "s", "p", ";">>)
      \/ (Contains(s, <<"<">>) /\ Contains(s, <<">">>))

isBlockElement(tag) ==
  ToLower(tag) \in { <<"p">>, <<"d", "i", "v">>, <<"b", "r">>, <<"l", "i">>, <<"u", "l">>, <<"o", "l">>, <<"t", "a", "b", "l", "e">>, <<"t", "r">>,
                     <<"t", "d">>, <<"h", "e", "a", "d", "e", "r">>, <<"f", "o", "o", "t", "e", "r">>, <<"s", "e", "c", "t", "i", "o", "n">>, <<"a", "r", "t", "i", "c", "l", "e">>,
                     <<"h", "1">>, <<"h", "2">>, <<"h", "3">>, <<"h", "4">> }

\* html.Parse followed by the walk f of htmlToText, on the documents the
\* inputs can hold: text with the entities &lt; &gt; &amp; &nbsp;, the tags
\* <p> and </p>, and start and end tags of elements the parser treats as
\* ordinary (<x>, </x>).  The walk visits the nodes in document order, so
\* the builder b is written while the tree is built: h.b is the builder,
\* h.st the stack of open elements under body, h.data the text node that
\* is the last child of the current node.
Entities ==
  { [name |-> <<"&", "l", "t", ";">>, ch |-> "<"], [name |-> <<"&", "g", "t", ";">>, ch |-> ">"],
    [name |-> <<"&", "a", "m", "p", ";">>, ch |-> "&"], [name |-> <<"&", "n", "b", "s", "p", ";">>, ch |-> "NBSP"] }

\* htmlToText, the TextNode case
WriteText(h) ==
  LET txt == TrimSpace(h.data)
      sep == IF h.b # <<>> /\ h.b[Len(h.b)] \notin {"\n", " "} THEN <<" ">> ELSE <<>>
  IN  [h EXCEPT !.b = IF txt = <<>> THEN h.b ELSE h.b \o sep \o txt, !.data = <<>>]

\* htmlToText, the ElementNode case, before and after the children
WriteBlock(b, tag) == IF isBlockElement(tag) /\ b # <<>> THEN b \o <<"\n">> ELSE b

OpenElement(h, tag) ==
  LET f == WriteText(h)
  IN  [f EXCEPT !.b = WriteBlock(f.b, tag), !.st = Append(f.st, tag)]

CloseElement(h) ==
  LET f == WriteText(h)
  IN  [f EXCEPT !.b = WriteBlock(f.b, f.st[Len(f.st)]),
                !.st = SubSeq(f.st, 1, Len(f.st) - 1)]

RECURSIVE CloseTo(_, _)
CloseTo(h, depth) == IF Len(h.st) <= depth THEN h ELSE CloseTo(CloseElement(h), depth)

\* The topmost open element with that tag, 0 if none.
TopMost(st, tag) ==
  LET K == {k \in 1..Len(st) : st[k] = tag}
  IN  IF K = {} THEN 0 ELSE CHOOSE k \in K : \A m \in K : m <= k

\* A start tag in body: <p> closes an open p first.
StartTag(h, tag) ==
  IF tag = <<"p">> /\ TopMost(h.st, tag) # 0
  THEN OpenElement(CloseTo(h, TopMost(h.st, tag) - 1), tag)
  ELSE OpenElement(h, tag)

\* An end tag in body: </p> without an open p makes an empty p; any other
\* end tag closes up to its element unless a p is open above it, and is
\* ignored when it has no open element.
EndTag(h, tag) ==
  LET k == TopMost(h.st, tag)
  IN  IF tag = <<"p">>
      THEN IF k = 0 THEN CloseElement(OpenElement(h, tag)) ELSE CloseTo(h, k - 1)
      ELSE IF k = 0 \/ TopMost(h.st, <<"p">>) > k THEN h
      ELSE CloseTo(h, k - 1)

IsTagStart(s, i) ==
  /\ s[i] = "<"
  /\ \/ i + 1 <= Len(s) /\ s[i + 1] \in LetterSet
     \/ i + 2 <= Len(s) /\ s[i + 1] = "/" /\ s[i + 2] \in LetterSet

\* The name of the tag whose name starts at i, lower-cased.
TagName(s, i) == ToLower(SubSeq(s, i, RunEndNot(s, i, AsciiSpace \cup {"/", ">"}) - 1))

RECURSIVE WalkHTML(_, _, _)
WalkHTML(s, i, h) ==
  IF i > Len(s) THEN WriteText(CloseTo(h, 0)).b
  ELSE IF IsTagStart(s, i)
  THEN LET j == IndexFrom(s, <<">">>, i)
       IN  IF j = 0 THEN WriteText(CloseTo(h, 0)).b
           ELSE IF s[i + 1] = "/"
           THEN WalkHTML(s, j + 1, EndTag(h, TagName(s, i + 2)))
           ELSE WalkHTML(s, j + 1, StartTag(h, TagName(s, i + 1)))
  ELSE IF \E e \in Entities : HasAt(s, i, e.name)
  THEN LET e == CHOOSE e \in Entities : HasAt(s, i, e.name)
       IN  WalkHTML(s, i + Len(e.name), [h EXCEPT !.data = Append(@, e.ch)])
  ELSE WalkHTML(s, i + 1, [h EXCEPT !.data = Append(@, s[i])])

htmlToText(htmlStr) ==
  LET out0 == WalkHTML(htmlStr, 1, [b |-> <<>>, st |-> <<>>, data |-> <<>>])
      out1 == ReplaceAll(out0, <<"NBSP">>, <<" ">>)
      out2 == ReplaceAllString(out1, reMultiWS(out1), <<" ">>, 1)
      out3 == ReplaceAllString(out2, reMultiNewlines(out2), <<"\n", "\n">>, 1)
  IN  TrimSpace(out3)

stripTagsFallback(s) ==
  LET out0 == ReplaceAllString(s, reTags(s), <<" ">>, 1)
      out1 == ReplaceAllString(out0, reMultiWS(out0), <<" ">>, 1)
  IN  TrimSpace(out1)

trimNonLetters(s) ==
  LET L == {i \in 1..Len(s) : s[i] \in LetterSet \cup DigitSet}
      start == IF L = {} THEN 1 ELSE CHOOSE i \in L : \A m \in L : i <= m
      end   == IF L = {} THEN Len(s) ELSE CHOOSE i \in L : \A m \in L : m <= i
  IN  IF s = <<>> THEN s ELSE TrimSpace(SubSeq(s, start, end))

\* CleanText, lines 16-22
ConvertHTML(s) ==
  IF looksLikeHTML(s)
  THEN IF htmlToText(s) # <<>> THEN htmlToText(s) ELSE stripTagsFallback(s)
  ELSE s

\* CleanText, line 24
StripReplyHeaders(s) == ReplaceAllString(s, reReplyHeaderAnywhere(s), <<"\n">>, 1)

\* Fault: the text is cut after the cue instead of before it.
CutAtSignatureAfter(s) ==
  LET loc == FindSignature(s, 1)
  IN  IF loc # 0 THEN SubSeq(s, 1, loc) ELSE s

\* CleanText, lines 26-28
CutAtSignature(s) ==
  LET loc == FindSignature(s, 1)
  IN  IF loc # 0 THEN SubSeq(s, 1, loc - 1) ELSE s

\* CleanText, lines 30-32
CutAtDelimiter(s) ==
  LET idx == findSignatureIndex(s)
  IN  IF idx # 0 THEN SubSeq(s, 1, idx - 1) ELSE s

\* CleanText, lines 34-39
StripHeaders(s) ==
  LET s1 == ReplaceAll(s, <<"\r", "\n">>, <<"\n">>)
      s2 == ReplaceAll(s1, <<"\r">>, <<"\n">>)
      s3 == ReplaceAllString(s2, reReplyHeader(s2), <<"\n">>, 1)
      s4 == ReplaceAllString(s3, reForwardHeader(s3), <<"\n">>, 1)
  IN  ReplaceAllString(s4, reOriginalMessage(s4), <<"\n">>, 1)

\* CleanText, lines 43-58: the lines that are kept, trimmed
RECURSIVE KeepLines(_)
KeepLines(lines) ==
  IF lines = <<>> THEN <<>>
  ELSE LET trim == TrimSpace(lines[1])
       IN  IF \/ trim = <<>>
              \/ reQuoteLine(trim)
              \/ reSignatureDelimiter(trim)
              \/ reHeaderLike(trim)
           THEN KeepLines(Tail(lines))
           ELSE <<trim>> \o KeepLines(Tail(lines))

\* CleanText, lines 41-59
FilterLines(s) == Join(KeepLines(Split(s)))

\* CleanText, lines 61-68
Scrub(s) ==
  LET s1 == ReplaceAllString(s, reURL(s), <<" ">>, 1)
      s2 == ReplaceAllString(s1, reEmail(s1), <<" ">>, 1)
      s3 == ReplaceAllString(s2, reSignatureWords(s2), <<" ">>, 1)
      s4 == ReplaceAllString(s3, reMultiWS(s3), <<" ">>, 1)
      s5 == trimNonLetters(TrimSpace(s4))
      s6 == ReplaceAllString(s5, reMultiNewlines(s5), <<"\n", "\n">>, 1)
  IN  TrimSpace(s6)

\* CleanText after the truncation at the signature cue, lines 30-70
AfterSignature(s) == Scrub(FilterLines(StripHeaders(CutAtDelimiter(s))))

CleanText(s) ==
  IF s = <<>> THEN s
  ELSE AfterSignature(CutAtSignature(StripReplyHeaders(ConvertHTML(s))))

\* ------------------------------------------------- text: the inputs
\* Every input is made of at most MaxPieces pieces of one family.
Families ==
  { { <<"f", "r", "o", "m", ":", " ">>, <<"b">>, <<"\n">>, <<"h", "t", "t", "p", ":", "/", "/", "x", ".", "y">>, <<"-">>, <<" ">> },
    { <<"<", "p", ">">>, <<"<", "/", "p", ">">>, <<"<", "x", ">">>, <<"a", "&", "l", "t", ";", "b">>, <<"\n", ">", "q">>, <<"a">> },
    { <<"a">>, <<" ", "-", "-", " ">>, <<"\n", "-", "-", " ">>, <<"\n", "t", "h", "a", "n", "k", "s">>,
      <<"z">>, <<"\n", "EMDASH">>, <<".", " ", "R", "e", "g", "a", "r", "d", "s">> },
    { <<"a">>, <<" ">>, <<"h", "t", "t", "p", ":", "/", "/", "x", ".", "y">>, <<"w", "w", "w", ".", "x", ".", "y">>, <<"u", "@", "x", ".", "y", "y">>, <<"_">> },
    { <<"o", "n", " ", "b", " ">>, <<"w", "r", "o", "t", "e", ":">>, <<"\n">>, <<"a">>, <<"\n", "B", "e", "s", "t">>,
      <<"\n", "|", "r">> } }

RECURSIVE Concats(_, _)
Concats(pieces, n) ==
  IF n = 0 THEN {<<>>}
  ELSE LET shorter == Concats(pieces, n - 1)
       IN  shorter \cup {c \o p : c \in shorter, p \in pieces}

Texts == UNION {Concats(f, MaxPieces) : f \in Families}

\* ------------------------------------------------- text: the operations
\* One call of CleanText; the values s takes on the way are kept.
Clean ==
  /\ tpc = "new"
  /\ thtml' = ConvertHTML(tin)
  /\ tsig' = StripReplyHeaders(thtml')
  /\ tcue' = CutAtSignature(tsig')
  /\ tcut' = CutAtDelimiter(tcue')
  /\ tout' = CleanText(tin)
  /\ tpc' = "cleaned"
  /\ UNCHANGED << tin, tout2 >>
  /\ UNCHANGED offText

\* CleanText called on its own result.
CleanAgain ==
  /\ tpc = "cleaned"
  /\ tout2' = CleanText(tout)
  /\ tpc' = "recleaned"
  /\ UNCHANGED << tin, thtml, tsig, tcue, tcut, tout >>
  /\ UNCHANGED offText

TextInit ==
  /\ BatchStart /\ CacheStart /\ rdbNil = FALSE /\ ServeStart /\ env = UnsetEnv
  /\ TextStart /\ tin \in Texts
  /\ BuildStart
  /\ QueryStart
  /\ PoolStart

TextNext ==
  \/ Clean
  \/ CleanAgain

TextSpec == TextInit /\ [][TextNext]_vars

\* ==================================================================
\* EnmimeParser.Parse: the fields of the entity that come from the body

\* strings.Fields: the number of maximal runs of characters that are not
\* white space, from i on.
RECURSIVE Fields(_, _)
Fields(s, i) ==
  LET a == RunEnd(s, i, UnicodeSpace)
  IN  IF a > Len(s) THEN 0 ELSE 1 + Fields(s, RunEndNot(s, a, UnicodeSpace))

countWords(s) == IF TrimSpace(s) = <<>> THEN 0 ELSE Fields(TrimSpace(s), 1)

\* strings.Count(s, "\n")
RECURSIVE CountChar(_, _)
CountChar(s, c) ==
  IF s = <<>> THEN 0 ELSE (IF Head(s) = c THEN 1 ELSE 0) + CountChar(Tail(s), c)

lineCount(s) == IF s = <<>> THEN 0 ELSE CountChar(s, "\n") + 1

\* Fault: the HTML part is taken whenever there is one.
SelectBodyHTMLFirst(text, html) == IF html # <<>> THEN html ELSE TrimSpace(text)

\* Parse, lines 100-103: the trimmed text part, the HTML part when that is
\* empty.
SelectBody(text, html) ==
  IF TrimSpace(text) = <<>> /\ html # <<>> THEN html ELSE TrimSpace(text)

\* Parse, lines 106 and 132-135, 147
BodyFields(text, html) ==
  LET clean == CleanText(SelectBody(text, html))
  IN  [text |-> clean, char_count |-> Len(clean), word_count |-> countWords(clean),
       line_count |-> lineCount(clean)]

\* The envelopes: a text part of at most MaxPieces pieces, and an HTML part.
TextParts ==
  Concats({ <<" ">>, <<"a">>, <<"\n">>, <<"b", " ", "c">>, <<"\n", "t", "h", "a", "n", "k", "s">> }, MaxPieces)
HTMLParts == { <<>>, <<" ">>, <<"<", "p", ">", "a", " ", "b", "<", "/", "p", ">">>, <<"<", "p", ">", "x", "<", "/", "p", ">", "<", "p", ">", "y", " ", "z", "<", "/", "p", ">">> }

\* One call of Parse on a well-formed message.
Build ==
  /\ epc = "new"
  /\ eent' = BodyFields(eText, eHTML)
  /\ epc' = "built"
  /\ UNCHANGED << eText, eHTML >>
  /\ UNCHANGED offBuild

BuildInit ==
  /\ BatchStart /\ CacheStart /\ rdbNil = FALSE /\ ServeStart /\ env = UnsetEnv
  /\ TextStart /\ tin = <<>>
  /\ epc = "new" /\ eent = NoFields
  /\ QueryStart
  /\ PoolStart
  /\ eText \in TextParts
  /\ eHTML \in HTMLParts

BuildNext == Build

BuildSpec == BuildInit /\ [][BuildNext]_vars

\* ==================================================================
\* BatchParseAndSave: the query parameters

\* The texts of a query parameter: at most MaxQueryLen characters.
QueryChars == {"0", "1", "5", "-", "m", "s", "x"}
QueryTexts == UNION {[1..n -> QueryChars] : n \in 0..MaxQueryLen}

\* parserController.go:104-115 for one parameter: the call goes on with the
\* effective value whatever the text is.
ReadQuery ==
  /\ qpc = "new"
  /\ qval' = IF qname = "max_workers" THEN EffectiveMaxWorkers(qtext)
             ELSE EffectiveItemTimeout(qtext)
  /\ qpc' = "read"
  /\ UNCHANGED << qname, qtext >>
  /\ UNCHANGED offQuery

QueryInit ==
  /\ BatchStart /\ CacheStart /\ rdbNil = FALSE /\ ServeStart /\ env = UnsetEnv
  /\ TextStart /\ tin = <<>>
  /\ BuildStart
  /\ qpc = "new" /\ qval = 0
  /\ qname \in {"max_workers", "item_timeout"}
  /\ qtext \in QueryTexts
  /\ PoolStart

QueryNext == ReadQuery

QuerySpec == QueryInit /\ [][QueryNext]_vars

\* ==================================================================
\* TimeoutPool: one call of Exec, Query or QueryRow and the caller's reading
\* of what it returns

PoolKinds == {"Exec", "Query", "QueryRow"}

\* ctx, cancel := context.WithTimeout(ctx, p.QueryTimeout), emailRepo.go:222,
\* 228, 234: the child of a context that is done is done.
WithTimeout ==
  /\ ppc = "idle"
  /\ ppc' = "in_pool"
  /\ pctx' = IF pparent THEN "expired" ELSE "live"
  /\ UNCHANGED << pkind, pavail, pparent, pleft, pgot, perr, pscanctx >>
  /\ UNCHANGED offPool

\* QueryTimeout passes, or the caller's context ends, while the context of
\* the call is live.
QueryDeadline ==
  /\ pctx = "live"
  /\ pctx' = "expired"
  /\ UNCHANGED << pkind, pavail, pparent, ppc, pleft, pgot, perr, pscanctx >>
  /\ UNCHANGED offPool

\* p.Pool.Exec / Query / QueryRow(ctx, sql, args...), lines 224, 230, 236.
\* Exec runs the statement to its end.  Query and QueryRow send it and hand
\* back rows that are read from the connection later, under the same context;
\* QueryRow keeps an error for the Scan of its row.
PoolCall ==
  /\ ppc = "in_pool"
  /\ ppc' = "deferred"
  /\ IF pctx # "live"
     THEN perr' = "context deadline exceeded" /\ pleft' = 0
     ELSE \E fail \in BOOLEAN :
            IF fail THEN perr' = "db error" /\ pleft' = 0
            ELSE /\ perr' = ""
                 /\ pleft' = IF pkind = "Exec" THEN 0
                             ELSE IF pkind = "QueryRow" /\ pavail > 1 THEN 1
                             ELSE pavail
  /\ UNCHANGED << pkind, pavail, pparent, pctx, pgot, pscanctx >>
  /\ UNCHANGED offPool

\* defer cancel(), lines 223, 229, 235: runs as the method returns, before
\* the caller has the result in hand.  Exec is over here, and so is a Query
\* that returned an error (emailRepo.go:155-157).
Cancel ==
  /\ ppc = "deferred"
  /\ pctx' = "cancelled"
  /\ ppc' = IF pkind = "Exec" \/ (pkind = "Query" /\ perr # "") THEN "done" ELSE "returned"
  /\ UNCHANGED << pkind, pavail, pparent, pleft, pgot, perr, pscanctx >>
  /\ UNCHANGED offPool

\* What reading one row gives under a context in state ctx: the row, and,
\* once the context is not live, the context's error as well (the read is
\* served from what the connection has buffered, or hits the deadline the
\* cancellation put on the connection).
ReadOutcomes(ctx) == IF ctx = "live" THEN {""} ELSE {"", "context canceled"}

\* row.Scan of GetByID (emailRepo.go:123-127), rows.Next and rows.Scan of
\* GetAll (lines 161-172).
Scan ==
  /\ ppc = "returned"
  /\ pkind = "QueryRow" \/ pleft > 0
  /\ pscanctx' = Append(pscanctx, pctx)
  /\ IF perr # ""
     THEN ppc' = "done" /\ UNCHANGED << perr, pleft, pgot >>
     ELSE \E e \in ReadOutcomes(pctx) :
            IF e # ""
            THEN perr' = e /\ ppc' = "done" /\ UNCHANGED << pleft, pgot >>
            ELSE IF pleft = 0
            THEN perr' = "no rows in result set" /\ ppc' = "done" /\ UNCHANGED << pleft, pgot >>
            ELSE /\ pgot' = pgot + 1
                 /\ pleft' = pleft - 1
                 /\ ppc' = IF pkind = "QueryRow" THEN "done" ELSE "returned"
                 /\ UNCHANGED perr
  /\ UNCHANGED << pkind, pavail, pparent, pctx >>
  /\ UNCHANGED offPool

\* GetAll, lines 161 and 186-189: rows.Next() is false, rows.Err() is read.
RowsEnd ==
  /\ ppc = "returned"
  /\ pkind = "Query"
  /\ pleft = 0
  /\ ppc' = "done"
  /\ \E e \in ReadOutcomes(pctx) : perr' = e
  /\ UNCHANGED << pkind, pavail, pparent, pctx, pleft, pgot, pscanctx >>
  /\ UNCHANGED offPool

PoolInit ==
  /\ BatchStart /\ CacheStart /\ rdbNil = FALSE /\ ServeStart /\ env = UnsetEnv
  /\ TextStart /\ tin = <<>>
  /\ BuildStart
  /\ QueryStart
  /\ pkind \in PoolKinds
  /\ pavail \in 0..MaxRows
  /\ pparent \in BOOLEAN
  /\ ppc = "idle" /\ pctx = "none" /\ pleft = 0 /\ pgot = 0 /\ perr = "" /\ pscanctx = <<>>

PoolNext == WithTimeout \/ QueryDeadline \/ PoolCall \/ Cancel \/ Scan \/ RowsEnd

PoolSpec == PoolInit /\ [][PoolNext]_vars

\* ==================================================================
\* Properties of BatchParseAndSave
\* ==================================================================
Done == hpc = "done"
MinOf(a, b) == IF a <= b THEN a ELSE b
Count(seq, x) == Cardinality({k \in 1..Len(seq) : seq[k] = x})

\* C1: batch order invariant.  In the response of a batch of n >= 1 inputs,
\* results[i].index = i for every i in 0..n-1, whatever the worker count and
\* the order in which the items complete.
C1_BatchOrder ==
  Done => /\ DOMAIN resp.results = Indices
          /\ \A i \in Indices : resp.results[i].index = i

\* C1 witness: a batch answered after item 1 was collected before item 0.
C1_Witness == Done /\ order = <<1, 0>> /\ resp.results[1].index = 1

\* C2: batch completeness.  When the handler answers,
\* succeeded + failed = processed = len(input), whatever mix of items
\* succeeded, failed or timed out.
C2_BatchComplete ==
  Done => /\ resp.processed = Len(inputs)
          /\ resp.succeeded + resp.failed = resp.processed

\* C2 witness: an answered batch with a success and a timed-out item.
C2_Witness ==
  /\ Done
  /\ resp.succeeded > 0
  /\ \E i \in Indices : resp.results[i].error = "context deadline exceeded"

\* C3: exactly one result per input index.  Every job is received by at most
\* one worker, which sends one result; no slot of out is written twice; and in
\* the response every job has been received, answered and stored once.
C3_OneResultPerIndex ==
  /\ \A i \in Indices :
       /\ parsed[i] <= 1
       /\ emitted[i] <= 1
       /\ Count(order, i) <= 1
  /\ Done => \A i \in Indices :
               /\ parsed[i] = 1
               /\ emitted[i] = 1
               /\ Count(order, i) = 1
               /\ resp.results[i].status \in {"ok", "error"}

\* C3 witness: an answered batch of two items handled by two workers.
C3_Witness ==
  /\ Done
  /\ Len(inputs) = 2
  /\ Cardinality(Workers) = 2
  /\ \A i \in Indices : emitted[i] = 1

\* C4: batch isolation.  An item is abandoned at its deadline: no worker is
\* still inside the parse-and-persist of an item whose item timeout has been
\* exceeded (it has gone on to the next job by then).
C4_AbandonedAtDeadline ==
  \A w \in Workers : wpc[w] \in {"parse", "save"} => elapsed[w] <= itemTimeout

\* C5: failure isolation.  In the response, an item whose Parse or SaveEmail
\* returned an error has status "error" and a non-empty message; every other
\* item has the result of its own calls (status "ok" and its entity's ID);
\* the answer is 200, with failed > 0 when an item failed.
C5_FailureIsolation ==
  Done =>
    /\ resp.code = StatusOK
    /\ \A i \in Indices :
         /\ outcome[i] \in {"parse_err", "save_err", "ok"}
         /\ outcome[i] \in {"parse_err", "save_err"} =>
              /\ resp.results[i].status = "error"
              /\ resp.results[i].error # ""
         /\ outcome[i] = "ok" =>
              /\ resp.results[i].status = "ok"
              /\ resp.results[i].email_id = NewID(i)
              /\ resp.results[i].error = ""
    /\ (\E i \in Indices : outcome[i] # "ok") => resp.failed > 0

\* C5 witness: an answered batch whose first item failed to parse and whose
\* second item was parsed and saved.
C5_Witness ==
  /\ Done
  /\ Len(inputs) = 2
  /\ outcome[0] = "parse_err"
  /\ resp.results[0].status = "error"
  /\ outcome[1] = "ok"
  /\ resp.results[1].status = "ok"

AllExited == \A w \in Workers : wpc[w] = "exited"

\* C6: a batch with a non-empty input completes.  Under fair scheduling, with
\* every Parse and SaveEmail call returning, a handler that has accepted its
\* input reaches its response, with every worker exited, both channels empty
\* and results closed.
C6_BatchCompletes ==
  (hpc = "spawn") ~>
     (Done /\ AllExited /\ jobs = <<>> /\ results = <<>> /\ resultsClosed)

\* C6 witness: an answered batch of two items with every worker exited.
C6_Witness ==
  Done /\ Len(inputs) >= 2 /\ Cardinality(Workers) >= 2 /\ AllExited /\ resultsClosed

\* The in-flight items whose context becomes done in a step.
CancelledInStep ==
  {w \in InFlight : w \in InFlight' /\ wjob'[w] = wjob[w]
                    /\ ~IctxDone(w) /\ IctxDone(w)'}

\* C7 as claimed: no single event cancels more than one in-flight item.
C7_NoPoolWideCancel == [][Cardinality(CancelledInStep) <= 1]_vars

\* C7 as amended: an item's own deadline cancels that item only; a step that
\* cancels several in-flight items at once is the cancellation of the request
\* context every item context is derived from.
C7_PerItemDeadline ==
  [][ \/ Cardinality(CancelledInStep) <= 1
      \/ (~reqCancelled /\ reqCancelled') ]_vars

\* C7 witness: two items in flight, one past its deadline, the other's
\* context still live.
C7_Witness ==
  \E w \in InFlight, v \in InFlight :
    w # v /\ DeadlinePassed(w) /\ ~IctxDone(v)

\* C8: a batch call with an empty input list or an unbindable body is answered
\* 400 before any worker is started: nothing is parsed, nothing is persisted,
\* and the handler goes past validation with a non-empty input only.
C8_EmptyRejected ==
  /\ resp.code = StatusBadRequest =>
       /\ hpc = "rejected"
       /\ Workers = {}
       /\ wg = 0
       /\ parsed = <<>>
       /\ saved = <<>>
       /\ store = {}
  /\ hpc \in {"spawn", "enqueue", "collect", "done"} => Len(inputs) >= 1
  /\ hpc = "rejected" => resp.code = StatusBadRequest

\* C8 witness: the empty list was rejected.
C8_Witness == hpc = "rejected" /\ resp.error = "empty input"

\* C9: the number of workers started is min(maxWorkers, len(inputs)), and at
\* every moment at most that many items are being parsed or persisted.
C9_WorkerBound ==
  hpc \in {"enqueue", "collect", "done"} =>
    /\ Cardinality(Workers) = MinOf(maxWorkers, Len(inputs))
    /\ wg <= MinOf(maxWorkers, Len(inputs))
    /\ Cardinality(InFlight) <= MinOf(maxWorkers, Len(inputs))

\* C9 witness: max_workers = 1 with two inputs; one item is in flight while
\* the other waits in the queue.
C9_Witness ==
  /\ maxWorkers = 1
  /\ Len(inputs) = 2
  /\ Cardinality(InFlight) = 1
  /\ jobs # <<>>

\* ==================================================================
\* Properties of CacheEmailRepo
\* ==================================================================
\* What a GetByID read from the cache is a decodable entry.
Decodable(r) == r.err = "" /\ r.bs # <<>> /\ Unmarshal(r.bs).ok

\* C10: GetByID checks the cache first.  A GetByID whose read of the cache
\* found a decodable entry returns the decoded entity without an error and
\* never calls the underlying repository, whatever the underlying store holds.
C10_CacheFirst ==
  \A c \in Callers :
    Decodable(cseen[c]) =>
      /\ ~casked[c]
      /\ cpc[c] \notin {"get_under", "get_fill"}
      /\ cret[c].op = "get"
      /\ cret[c].err = ""
      /\ cret[c].ent = Unmarshal(cseen[c].bs).e

\* C10 witness: a GetByID answered from the cache with a saved entity whose
\* row is no longer in the underlying store.
C10_Witness ==
  \E c \in Callers :
    /\ Decodable(cseen[c])
    /\ cret[c].op = "get"
    /\ cret[c].ent.ver >= 1
    /\ under[cret[c].ent.id] = 0

\* The step in which caller c leaves the position pc.
Leaves(c, pc) == cpc[c] = pc /\ cpc'[c] # pc

\* C11: SaveEmail that returns nil has removed the cache entry of email.ID
\* (so that the next GetByID of that id asks the underlying repository); a
\* failed underlying save returns the error and leaves the cache unchanged.
C11_SaveInvalidates ==
  [][\A c \in Callers :
       /\ (Leaves(c, "save_del") /\ cpc'[c] = "idle") =>
            (cret'[c].err = "" /\ ~cache'[carg[c].id].has)
       /\ (Leaves(c, "save_under") /\ cpc'[c] = "idle") =>
            (cret'[c].err # "" /\ cache' = cache)]_vars

\* C12 as stated: a GetByID that did not find a decodable entry asks the
\* underlying repository and returns its result; a found entity is then in
\* the cache; an underlying error is returned and nothing is cached.
C12_FallbackAlwaysCached ==
  [][\A c \in Callers :
       /\ (Leaves(c, "get_cache") /\ ~Decodable(cseen'[c])) => cpc'[c] = "get_under"
       /\ (Leaves(c, "get_under") /\ cpc'[c] = "get_fill") =>
            (under[carg[c].id] # 0 /\ carg'[c] = Entity(carg[c].id, under[carg[c].id]))
       /\ (Leaves(c, "get_under") /\ cpc'[c] = "idle" /\ ~rdbNil) =>
            (cret'[c].err \in {"db error", "email not found"} /\ cache' = cache)
       /\ Leaves(c, "get_fill") =>
            /\ cret'[c] = [op |-> "get", err |-> "", ent |-> carg[c]]
            /\ cache'[carg[c].id].has
            /\ Unmarshal(cache'[carg[c].id].bs).e = carg[c]]_vars

\* C12 amended: as above, but the entity is in the cache after the call only
\* if the Set succeeded; the error of Set is ignored and then the cache is
\* left as it was.
C12_FallbackThenFill ==
  [][\A c \in Callers :
       /\ (Leaves(c, "get_cache") /\ ~Decodable(cseen'[c])) => cpc'[c] = "get_under"
       /\ (Leaves(c, "get_under") /\ cpc'[c] = "get_fill") =>
            (under[carg[c].id] # 0 /\ carg'[c] = Entity(carg[c].id, under[carg[c].id]))
       /\ (Leaves(c, "get_under") /\ cpc'[c] = "idle" /\ ~rdbNil) =>
            (cret'[c].err \in {"db error", "email not found"} /\ cache' = cache)
       /\ Leaves(c, "get_fill") =>
            /\ cret'[c] = [op |-> "get", err |-> "", ent |-> carg[c]]
            /\ \/ cache' = cache
               \/ /\ cache'[carg[c].id].has
                  /\ Unmarshal(cache'[carg[c].id].bs).e = carg[c]
                  /\ \A id \in Ids \ {carg[c].id} : cache'[id] = cache[id]]_vars

\* C12 witness: a GetByID that read an undecodable entry, asked the
\* underlying repository, returned its entity and left it in the cache.
C12_Witness ==
  \E c \in Callers :
    /\ cret[c].op = "get"
    /\ cseen[c].bs = BadJSON
    /\ casked[c]
    /\ cret[c].err = ""
    /\ cret[c].ent.ver >= 1
    /\ cache[cret[c].ent.id] = [has |-> TRUE, bs |-> Marshal(cret[c].ent)]

\* ==================================================================
\* Properties of the service and of ParseAndSave
\* ==================================================================
\* C13: in ParseAndSave the first failing step ends the request: a failed
\* Parse gives 500 with SaveEmail never called and the store unchanged; a
\* failed SaveEmail gives 500; 201 is written only after a successful save.
C13_FirstFailureEnds ==
  /\ sparse = "err" =>
       /\ spc = "done"
       /\ scode = StatusInternalServerError
       /\ ssave = "none"
       /\ sstore = sstore0
  /\ ssave = "err" => (spc = "done" /\ scode = StatusInternalServerError)
  /\ scode = StatusCreated => (sparse = "ok" /\ ssave = "ok")

\* C13 witness: a request whose Parse failed has ended with 500, after an
\* earlier request had stored a row.
C13_Witness ==
  /\ sparse = "err"
  /\ scode = StatusInternalServerError
  /\ sstore # {}
  /\ sstore = sstore0

\* C14: the duration given to TimeoutMiddleware is the value of
\* HTTP_REQUEST_TIMEOUT when it is set to a positive duration, and 500ms when
\* it is unset.
C14_RequestTimeoutFromEnv ==
  boot = "serving" =>
    /\ (env.set /\ ParseDuration(env.val).ok /\ ParseDuration(env.val).ms > 0) =>
         reqTimeout = ParseDuration(env.val).ms
    /\ ~env.set => reqTimeout = DefaultRequestTimeoutMs

\* ==================================================================
\* Properties of CleanText

Lines(s) == Split(ReplaceAll(ReplaceAll(s, <<"\r", "\n">>, <<"\n">>), <<"\r">>, <<"\n">>))
Chars(s) == {s[k] : k \in 1..Len(s)}

\* A signature marker: a closing salutation the truncation recognizes, a
\* delimiter findSignatureIndex knows, or a line that is only a delimiter.
HasSignatureMarker(s) ==
  \/ FindSignature(s, 1) # 0
  \/ findSignatureIndex(s) # 0
  \/ \E k \in 1..Len(Lines(s)) : reSignatureDelimiter(TrimSpace(Lines(s)[k]))

\* C15: CleanText is idempotent on text that is free of HTML and of
\* signature markers: cleaning the result again gives the result.
C15_Idempotent ==
  (tpc = "recleaned" /\ ~looksLikeHTML(tin) /\ ~HasSignatureMarker(tin))
    => tout2 = tout

\* An HTML document in the text: a paragraph element, opened and closed.
ContainsHTMLDocument(s) ==
  \E i \in 1..Len(s) :
    HasFoldAt(s, i, <<"<", "p", ">">>) /\ IndexFrom(ToLower(s), <<"<", "/", "p", ">">>, i) # 0

PlainText(s) ==
  /\ ~looksLikeHTML(s)
  /\ \A i \in 1..Len(s) : reReplyHeaderAnywhere(s)[i] = 0

\* The content preceding the first recognized signature cue of s.
BeforeCue(s) == SubSeq(s, 1, FindSignature(s, 1) - 1)
\* The characters that s holds only from its first signature cue on.
OnlyFromCue(s) ==
  Chars(SubSeq(s, FindSignature(s, 1), Len(s))) \ Chars(BeforeCue(s))

LeastOffset(offsets) ==
  IF offsets \ {0} = {} THEN 0
  ELSE CHOOSE i \in offsets \ {0} : \A m \in offsets \ {0} : i <= m

\* The offset of the first signature cue or signature delimiter of s,
\* whichever kind it is.
EarliestSignatureOffset(s) ==
  LeastOffset({ FindSignature(s, 1),
                Index(s, <<"\n", "-", "-", " ">>), Index(s, <<"\n", "EMDASH">>),
                Index(s, <<" ", "-", "-", " ">>), Index(s, <<" ", "EMDASH", " ">>) })

\* C18: the truncation happens at the earliest offset among the signature
\* cues and the delimiters "\n-- ", "\n(em dash)", " -- ", " (em dash) ":
\* nothing at or after that offset is left after the truncation step.
C18_EarliestOffsetWins ==
  (tpc # "new" /\ EarliestSignatureOffset(tsig) # 0)
    => Len(tcut) < EarliestSignatureOffset(tsig)

\* The lines of s that start with ">" or "|", and the other lines.
QuotedLines(s) == {k \in 1..Len(Lines(s)) : reQuoteLine(Lines(s)[k])}
OtherLines(s) == (1..Len(Lines(s))) \ QuotedLines(s)
\* The letters and digits s holds in quoted lines only.
OnlyQuoted(s) ==
  (UNION {Chars(Lines(s)[k]) : k \in QuotedLines(s)} \cap (LetterSet \cup DigitSet))
    \ UNION {Chars(Lines(s)[k]) : k \in OtherLines(s)}

\* C19: quote stripping: a line of the input that starts with ">" or "|"
\* is not in the result, so no letter or digit the input holds in such
\* lines only is in the result.
C19_QuoteStripping ==
  tpc # "new" => Chars(tout) \cap OnlyQuoted(tin) = {}

\* A URL starts at i: a scheme that does not continue a word of letters
\* and digits, followed by at least one character that is not white space.
SchemeEnd(s, i) ==
  IF HasFoldAt(s, i, <<"h", "t", "t", "p", ":", "/", "/">>) THEN i + 7
  ELSE IF HasFoldAt(s, i, <<"h", "t", "t", "p", "s", ":", "/", "/">>) THEN i + 8
  ELSE IF HasFoldAt(s, i, <<"w", "w", "w", ".">>) THEN i + 4
  ELSE 0
IsURLAt(s, i) ==
  /\ SchemeEnd(s, i) # 0
  /\ (i = 1 \/ s[i - 1] \notin LetterSet \cup DigitSet)
  /\ RunEndNot(s, SchemeEnd(s, i), AsciiSpace) > SchemeEnd(s, i)
URLAt(s, i) == SubSeq(s, i, RunEndNot(s, SchemeEnd(s, i), AsciiSpace) - 1)

\* An email address starts at i.
IsEmailAt(s, i) ==
  /\ reEmail(s)[i] # 0
  /\ (i = 1 \/ s[i - 1] \notin LetterSet \cup DigitSet \cup {".", "_", "%", "+", "-"})
EmailAt(s, i) == SubSeq(s, i, reEmail(s)[i] - 1)

\* C20: no literal leakage: no URL and no email address of the input is
\* in the result verbatim.
C20_NoLiteralLeak ==
  tpc # "new" =>
    \A i \in 1..Len(tin) :
      /\ IsURLAt(tin, i) => ~Contains(tout, URLAt(tin, i))
      /\ IsEmailAt(tin, i) => ~Contains(tout, EmailAt(tin, i))

\* C21: the result of CleanText has no leading or trailing character that
\* is neither a letter nor a digit: it is empty, or it begins and ends with
\* a letter or a digit.
C21_EdgesAreLettersOrDigits ==
  tpc # "new" =>
    \/ tout = <<>>
    \/ /\ tout[1] \in LetterSet \cup DigitSet
       /\ tout[Len(tout)] \in LetterSet \cup DigitSet

\* ==================================================================
\* Properties of EnmimeParser.Parse

\* The number of words of s: the positions where a character that is not
\* white space starts the text or follows white space.
WordStarts(s) ==
  Cardinality({i \in 1..Len(s) :
                 s[i] \notin UnicodeSpace /\ (i = 1 \/ s[i - 1] \in UnicodeSpace)})

\* The body Parse selects: the trimmed text part when it is not empty,
\* otherwise the HTML part.
SelectedBody ==
  IF TrimSpace(eText) # <<>> THEN TrimSpace(eText) ELSE eHTML

\* C22: the text of a parsed entity is CleanText of the selected body, and
\* char_count, word_count and line_count are those of that cleaned text.
C22_TextIsCleanedBody ==
  epc = "built" =>
    /\ eent.text = CleanText(SelectedBody)
    /\ eent.char_count = Len(eent.text)
    /\ eent.word_count = WordStarts(eent.text)
    /\ eent.line_count =
         (IF eent.text = <<>> THEN 0
          ELSE Cardinality({i \in 1..Len(eent.text) : eent.text[i] = "\n"}) + 1)

\* The HTML part is the body because the text part is blank, and the cleaned
\* text is shorter than the body, so the metrics differ from the raw ones.
C22_Witness ==
  /\ epc = "built"
  /\ eText # <<>> /\ TrimSpace(eText) = <<>>
  /\ eHTML # <<>>
  /\ eent.text # <<>>
  /\ eent.char_count < Len(eHTML)
  /\ eent.word_count = 2

\* C23: a panic raised by Parse or SaveEmail while a worker processes an
\* item is captured as the failure of that item: the process lives on and
\* the worker holds an error result for the item.
C23_PanicCaptured ==
  [][\A w \in DOMAIN wpc :
       (wpc[w] \in {"parse", "save"} /\ ~crashed /\ crashed')
         => /\ hpc' # "crashed"
            /\ w \in DOMAIN wres'
            /\ wres'[w].status = "error"]_vars

\* The decimal spellings of n: an optional "+", then digits, zeros in front
\* allowed.
Spells(q, n) ==
  LET digits == IF q # <<>> /\ q[1] = "+" THEN Tail(q) ELSE q
  IN  AllDigits(digits) /\ DigitsValue(digits) = n

\* C24: the batch parameters fall back to their defaults: max_workers is 5
\* unless the query text is an integer in 1..100, item_timeout is 500 ms
\* unless the query text is a strictly positive duration.
C24_ParameterDefaults ==
  qpc = "read" =>
    /\ qname = "max_workers" =>
         /\ \A n \in 1..MaxWorkersLimit : Spells(qtext, n) => qval = n
         /\ (~\E n \in 1..MaxWorkersLimit : Spells(qtext, n)) => qval = DefaultMaxWorkers
    /\ qname = "item_timeout" =>
         /\ IF ParseDuration(qtext).ok /\ ParseDuration(qtext).ms > 0
            THEN qval = ParseDuration(qtext).ms
            ELSE qval = DefaultItemTimeoutMs
         /\ \A k \in 1..Len(qtext) :
              (AllDigits(SubSeq(qtext, 1, k)) /\ DigitsValue(SubSeq(qtext, 1, k)) > 0)
                => /\ SubSeq(qtext, k + 1, Len(qtext)) = <<"m", "s">>
                        => qval = DigitsValue(SubSeq(qtext, 1, k))
                   /\ SubSeq(qtext, k + 1, Len(qtext)) = <<"s">>
                        => qval = 1000 * DigitsValue(SubSeq(qtext, 1, k))
         /\ (qtext = <<>> \/ AllDigits(qtext) \/ qtext[1] = "-")
              => qval = DefaultItemTimeoutMs

\* An integer above the limit gives the default.
C24_Witness ==
  /\ qpc = "read"
  /\ qname = "max_workers"
  /\ qtext = <<"1", "0", "1">>
  /\ qval = DefaultMaxWorkers

\* C25: within a batch item SaveEmail is called only after Parse succeeded:
\* never for an item whose raw message is malformed, at most once, and after
\* the one Parse call; an item is reported ok, with the ID of the parsed
\* entity as email_id, only when both Parse and SaveEmail succeeded.
C25_SaveAfterParse ==
  /\ \A i \in DOMAIN saved :
       /\ saved[i] <= parsed[i]
       /\ parsed[i] <= 1
       /\ inputs[i + 1] = "bad" => saved[i] = 0
       /\ outcome[i] = "parse_err" => saved[i] = 0
       /\ outcome[i] \in {"ok", "save_err"} => (parsed[i] = 1 /\ saved[i] = 1)
  /\ Done =>
       \A i \in Indices :
         resp.results[i].status = "ok"
           => /\ outcome[i] = "ok"
              /\ inputs[i + 1] # "bad"
              /\ parsed[i] = 1 /\ saved[i] = 1
              /\ resp.results[i].email_id = NewID(i)

\* An answered batch with an item that failed in Parse and was never saved,
\* and an item that was parsed, saved and reported ok.
C25_Witness ==
  /\ Done
  /\ Len(inputs) = 2
  /\ inputs[1] = "bad" /\ parsed[0] = 1 /\ saved[0] = 0
  /\ resp.results[0].status = "error"
  /\ parsed[1] = 1 /\ saved[1] = 1
  /\ resp.results[1].status = "ok"
  /\ resp.results[1].email_id = NewID(1)

\* C26: at most one response is written for a request that passes through
\* TimeoutMiddleware: once the middleware has written 504 the handler does
\* not write a status or body for that request, and once the handler has
\* written the middleware does not write 504.
C26_OneResponse ==
  [][sreq' = sreq =>
       /\ mwcode = StatusGatewayTimeout => (scode' = scode /\ sbody' = sbody)
       /\ scode # 0 => mwcode' = mwcode]_vars

\* C27: a GetByID that started after a SaveEmail of the same id had returned
\* nil never returns an entity version older than the one that SaveEmail
\* stored: the version it returns was written to the underlying store no
\* earlier than every version a returned SaveEmail had stored by then.
\* Only a SaveEmail whose Del reached Redis counts, so that a violation is
\* an interleaving and not a failed invalidation.
C27_NoStaleRead ==
  \A c \in Callers :
    (cret[c].op = "get" /\ cret[c].err = "") => StoredAt(cret[c].ent) >= cfloor[c]

\* C30: a CacheEmailRepo built with a nil Redis client is a pass-through: no
\* call panics or fails because the cache is missing, the cache is never
\* touched, and a GetByID has asked the underlying repository before it
\* returns.
C30_NilClientPassThrough ==
  rdbNil =>
    \A c \in Callers :
      /\ cpc[c] # "panicked"
      /\ cret[c].err \in {"", "db error", "email not found"}
      /\ cret[c].op = "get" => casked[c]
      /\ \A id \in Ids : ~cache[id].has

\* C28: every entity returned with 201 by ParseAndSave identifies a row in the
\* store: after SaveEmail(e) succeeded a row with the id e.ID exists, also
\* when an email with the same message_id was saved earlier under another id.
C28_ReturnedIdIsStored ==
  (spc = "done" /\ scode = StatusCreated) => \E r \in sstore : r.id = sbody.ent.id

\* ==================================================================
\* Properties of TimeoutPool
\* ==================================================================
\* C29: the context that TimeoutPool.Query and QueryRow hand to the pool is
\* still live whenever the caller scans a returned row: its cancellation
\* never comes before the result is consumed.
C29_LiveWhileScanning ==
  \A i \in DOMAIN pscanctx : pscanctx[i] = "live"
============================================================================
